---------------------------- MODULE Spec2Model ----------------------------
(***************************************************************************)
(* Model of the storage-fabric server (WebSocketStorageServer), the        *)
(* per-tenant bucket manager (UserBucketManager), the namespaced Redis     *)
(* adapter (UserRedisAdapter) and the client storage adapter               *)
(* (WebSocketAdapter).                                                     *)
(*                                                                         *)
(* Strings that end up in backing-store keys are sequences of one-char     *)
(* atoms (a literal chunk without ':' or glob characters counts as one     *)
(* atom), so that prefixes, separators and KEYS patterns are computed.     *)
(* The shared Redis client is one FIFO pipeline: commands are applied and  *)
(* answered in the order they were issued, and the continuation of the     *)
(* awaiting code runs when the reply is delivered.                         *)
(***************************************************************************)
EXTENDS Integers, Sequences, FiniteSets, TLC

\* ------------------------------------------------------------- bounds
NumConns == 2
MaxReqs == 2
MaxRaw == 1
MaxFails == 1
MaxReconnectAttempts == 1
NumSocks == 6
MaxDials == 2
MaxSeq == 2
MaxRetry == 2

Conns == 1..NumConns
ReqIds == 1..MaxReqs

\* tokens a peer may present; validateToken accepts the first two
Tokens == {"t1", "t2", "bad"}
AcceptedTokens == {"t1", "t2"}
Collections == {<<"a">>, <<"b">>}
Keys == {<<"k">>}
Values == {1, 2}
\* the two possible values of a random IV draw that matter: equal or not
RandomIVs == {1, 2}

NoString == <<>>
NoKey == 0
NoValue == 0

\* ------------------------------------------------------------- strings
RECURSIVE GlobMatch(_, _)
\* Redis KEYS pattern matching: '*' matches any run of characters
GlobMatch(pat, s) ==
  IF pat = <<>> THEN s = <<>>
  ELSE IF Head(pat) = "*"
       THEN GlobMatch(Tail(pat), s) \/ (s # <<>> /\ GlobMatch(pat, Tail(s)))
       ELSE s # <<>> /\ Head(s) = Head(pat) /\ GlobMatch(Tail(pat), Tail(s))

StartsWith(s, p) == Len(s) >= Len(p) /\ SubSeq(s, 1, Len(p)) = p

\* ------------------------------------------------------------- bucket manager: naming
USER_METADATA_KEY_PREFIX == <<"user_metadata", ":">>
USER_DATA_KEY_PREFIX == <<"user_data", ":">>

\* Bun.hash(token) rendered in decimal; distinct tokens of the model get
\* distinct digests, one a proper prefix of another
BunHash(token) ==
  CASE token = "t1" -> <<"1">>
    [] token = "t2" -> <<"1", "2">>
    [] OTHER -> <<"7">>

formatUserId(token) == <<"user_">> \o BunHash(token)
formatUserMetadataKey(userId) == USER_METADATA_KEY_PREFIX \o userId
formatUserDataPrefix(userId) == USER_DATA_KEY_PREFIX \o userId

UserIds == {formatUserId(t) : t \in Tokens}

\* ------------------------------------------------------------- namespaced adapter: naming
formatKey(prefix, collection, key) == prefix \o <<":">> \o collection \o <<":">> \o key

\* the pattern built without the separator after the prefix
scanPatternNoSeparator(prefix, collection) ==
  IF collection # NoString
  THEN prefix \o collection \o <<":">> \o <<"*">>
  ELSE prefix \o <<"*">>

\* pattern of clear/size/keys; collection = NoString means "all collections"
scanPattern(prefix, collection) ==
  IF collection # NoString
  THEN prefix \o <<":">> \o collection \o <<":">> \o <<"*">>
  ELSE prefix \o <<":">> \o <<"*">>

RECURSIVE IndexOfColon(_, _)
IndexOfColon(s, i) ==
  IF i > Len(s) THEN 0
  ELSE IF s[i] = ":" THEN i ELSE IndexOfColon(s, i + 1)

\* parseKey(key).key : strip "{prefix}:" and the segment up to the first ':'
parseKey(prefix, rkey) ==
  LET withoutPrefix == SubSeq(rkey, Len(prefix) + 2, Len(rkey))
      colonIndex == IndexOfColon(withoutPrefix, 1)
  IN IF colonIndex = 0 THEN withoutPrefix
     ELSE SubSeq(withoutPrefix, colonIndex + 1, Len(withoutPrefix))

serialize(value) == <<"json", value>>
deserialize(str) == str[2]

\* ------------------------------------------------------------- server: derivations
validateToken(token) == token \in AcceptedTokens
deriveChannelId(token) == <<"channel_", token>>


\* ------------------------------------------------------------- state
VARIABLES
  ws,               \* transport of each connection: idle, open, closing, closed
  clients,          \* WebSocketStorageServer.clients (connections with a Client object)
  cl,               \* the Client object of each connection
  clientsByChannel, \* WebSocketStorageServer.clientsByChannel: channelId -> set of connections
  helloTasks,       \* handleHello invocations suspended on validateToken
  sent,             \* frames the server handed to ws.send, per connection, in order
  redisQ,           \* commands issued on the shared RedisClient, not yet answered
  redis,            \* string keys of the backing store: key -> serialized value
  allUsers,         \* the backing store's set `all_users`
  buckets,          \* UserBucketManager.buckets: userId -> adapter instance
  metadataCache,    \* key set of UserBucketManager.metadataCache
  ad,               \* the peer of each connection (WebSocketAdapter fields)
  ctr,              \* counters: request ids, raw frames, session keys, adapter instances
  req,              \* history: what became of each request id
  dispatched,       \* history: the broadcasts made, with the membership at dispatch time
  lastOp,           \* history: the last backing-store command issued through a tenant adapter
  failures,         \* history: the handshake failures, each with its connection
  adapter,          \* the WebSocketAdapter object: its fields that outlive one transport
  written,          \* history: the last mutation applied to each (prefix, collection, key) name
  gw                \* the DiscordWebSocket object, its sockets, timers and session store

vars == <<ws, clients, cl, clientsByChannel, helloTasks, sent, redisQ, redis,
          allUsers, buckets, metadataCache, ad, ctr, req, dispatched, lastOp, failures,
          adapter, written, gw>>

NoStorage == [inst |-> 0, prefix |-> NoString]
NoSeal == [tok |-> "", sk |-> NoKey, wiv |-> 0]

\* Client as created by the websocket.open handler
NewClient ==
  [token |-> "", channelId |-> NoString, encryptionKey |-> NoKey, iv |-> 0,
   isAuthenticated |-> FALSE, storage |-> NoStorage]

\* WebSocketAdapter fields right after construction, before the transport opens
NewAdapter ==
  [peer |-> "none", token |-> "", connected |-> FALSE, authenticated |-> FALSE,
   encKey |-> NoKey, encIv |-> 0, helloSent |-> FALSE, pos |-> 0, stray |-> 0]

NoReq == [conn |-> 0, action |-> "", st |-> "unsent"]

\* a call of the adapter's API that has not been made

\* the WebSocketAdapter object before its constructor has run. ws is the index of the
\* transport this.ws refers to (0 for null). History: created counts the transports
\* connect() made, attempts the reconnect attempts since the last completed handshake,
\* closeCalled / createdAtClose / closedIn what close() found, calls the outcome of each
\* API call, timeouts the request timers still armed, armed the number of reconnect
\* timers that were set and have neither fired nor been cleared
NoAdapter ==
  [token |-> "", ws |-> 0, closing |-> FALSE, reconnectTimer |-> FALSE,
   reconnectAttempts |-> 0, pendingRequests |-> {}, timeouts |-> {}, created |-> 0,
   armed |-> 0, attempts |-> 0, closeCalled |-> FALSE, createdAtClose |-> 0, closedIn |-> "",
   calls |-> [i \in ReqIds |-> [op |-> "", st |-> "", failed |-> FALSE]]]
NoOp == [owner |-> NoString, conn |-> 0, touched |-> {}]

\* DiscordWebSocket.maxReconnectAttempts
maxReconnectAttempts == 5

\* SessionStorage.load returns null
NoSession == [sessionId |-> 0, sequence |-> 0, resume |-> FALSE]

\* a WebSocket that connect() has not made yet. st is none, connecting, open, closing (the
\* client called ws.close and the close event is due) or closed; url is the address
\* dialed; code the close code. History: why the client closed it, whether listeners were
\* registered at that moment, how many `disconnected` events of it listeners observed,
\* whether a reconnect was scheduled at its close, and whether it delivered a HELLO
NoSocket ==
  [st |-> "none", url |-> "", code |-> 0, why |-> "", listening |-> FALSE, heard |-> 0,
   scheduled |-> "", hello |-> FALSE]

\* the DiscordWebSocket object after its constructor, with the listeners of its owner
\* registered. ws is the index of the socket this.ws refers to (0 for null), sessionId 0
\* is null, resumeGatewayUrl is whether the field is set, store the session store's
\* record for the token, limited the remaining retry window of each opcode in the rate
\* limiter, sleeper the remaining sleep of a waitForAvailability (-1 for none), timers the
\* reconnect timers armed, delayed the send armed by handleInvalidSession.
\* History: created counts the sockets made, lastDelay is the delay of the last reconnect
\* timer, handshake the last frame sent by handleHello (n flips on each one), early the
\* opcodes sent while their retry window was open, intervals and ackTimers the number of
\* live setInterval and ack setTimeout timers of the heartbeat
NewGateway ==
  [ws |-> 0, created |-> 0, sock |-> [s \in 1..NumSocks |-> NoSocket],
   sequence |-> 0, sessionId |-> 0, resumeGatewayUrl |-> FALSE,
   heartbeatTimer |-> FALSE, heartbeatAckTimeout |-> FALSE, heartbeatAckReceived |-> FALSE,
   connected |-> FALSE, readyPromise |-> FALSE, reconnectAttempts |-> 0,
   isResuming |-> FALSE, listeners |-> TRUE, store |-> NoSession,
   limited |-> [o \in {3, 8} |-> 0], sleeper |-> -1, timers |-> 0, delayed |-> "",
   lastDelay |-> 0, handshake |-> [n |-> 0, op |-> 0, sessionId |-> 0, seq |-> 0],
   early |-> {}, intervals |-> 0, ackTimers |-> 0]

Init ==
  /\ ws = [c \in Conns |-> "idle"]
  /\ clients = {}
  /\ cl = [c \in Conns |-> NewClient]
  /\ clientsByChannel = <<>>
  /\ helloTasks = {}
  /\ sent = [c \in Conns |-> <<>>]
  /\ redisQ = <<>>
  /\ redis = <<>>
  /\ allUsers = {}
  /\ buckets = <<>>
  /\ metadataCache = {}
  /\ ad = [c \in Conns |-> NewAdapter]
  /\ ctr = [id |-> 0, raw |-> 0, key |-> 0, inst |-> 0, hello |-> 0, fail |-> 0]
  /\ req = [i \in ReqIds |-> NoReq]
  /\ dispatched = <<>>
  /\ lastOp = NoOp
  /\ failures = {}
  /\ adapter = NoAdapter
  /\ written = <<>>
  /\ gw = NewGateway

\* ------------------------------------------------------------- frames
\* inner JSON of a server frame; absent fields hold their empty value
EmptyBody ==
  [type |-> "", channelId |-> NoString, sealed |-> NoSeal, ivField |-> 0, id |-> 0,
   hasResult |-> FALSE, hasError |-> FALSE, error |-> "", result |-> <<>>,
   event |-> "", collection |-> NoString, key |-> NoString, value |-> NoValue,
   cause |-> 0]   \* cause is history: the request whose handler broadcast the event

\* inner JSON of a peer frame
EmptyMsg ==
  [type |-> "", token |-> "", tokenIsString |-> TRUE, action |-> "",
   collection |-> NoString, key |-> NoString, value |-> NoValue, id |-> 0,
   userId |-> NoString]

PlainFrame(body) == [enc |-> FALSE, key |-> NoKey, iv |-> 0, json |-> TRUE, body |-> body]
CipherFrame(body, key, iv) == [enc |-> TRUE, key |-> key, iv |-> iv, json |-> TRUE, body |-> body]
\* text on the wire that is neither JSON nor base64(iv || tag || ciphertext)
JunkFrame == [enc |-> FALSE, key |-> NoKey, iv |-> 0, json |-> FALSE, body |-> EmptyMsg]

\* AES-256-GCM opens only a frame sealed under the same key; the IV is read from the frame
Decryptable(frame, key) == frame.enc /\ frame.key = key
\* JSON.parse of the wire text
JsonParsable(frame) == ~frame.enc /\ frame.json

\* WebSocketStorageServer.encrypt
encrypt(body, c) ==
  IF cl[c].encryptionKey = NoKey \/ cl[c].iv = 0
  THEN PlainFrame(body)
  ELSE CipherFrame(body, cl[c].encryptionKey, cl[c].iv)

\* WebSocketStorageServer.send: the wire frame of a response
send(c, response) ==
  IF cl[c].isAuthenticated /\ cl[c].encryptionKey # NoKey
  THEN encrypt(response, c)
  ELSE PlainFrame(response)

\* WebSocketStorageServer.sendEvent: the wire frame of an event
sendEvent(event) == PlainFrame(event)

\* ws.send: the frame joins the connection's log; it reaches the peer only if the transport is open
Transmit(log, c, frame) == Append(log, [frame |-> frame, delivered |-> ws[c] = "open"])

ErrorEvent(text) == [EmptyBody EXCEPT !.type = "error", !.error = text]
\* an error response that also carries a result field
ErrorResponseWithResult(id, text) ==
  [EmptyBody EXCEPT !.id = id, !.hasError = TRUE, !.error = text, !.hasResult = TRUE]

ErrorResponse(id, text) == [EmptyBody EXCEPT !.id = id, !.hasError = TRUE, !.error = text]
ResultResponse(id, result) == [EmptyBody EXCEPT !.id = id, !.hasResult = TRUE, !.result = result]

Members(channelId) ==
  IF channelId \in DOMAIN clientsByChannel THEN clientsByChannel[channelId] ELSE {}

\* a broadcast that does not skip excludeClient
broadcastNoExclusion(channelId, event, excludeClient) ==
  [d \in Conns |->
     IF d \in Members(channelId)
     THEN <<IF cl[d].isAuthenticated THEN encrypt(event, d) ELSE sendEvent(event)>>
     ELSE <<>>]

\* WebSocketStorageServer.broadcastToChannel: the frames it sends, per connection
broadcastToChannel(channelId, event, excludeClient) ==
  [d \in Conns |->
     IF d \in Members(channelId) /\ d # excludeClient
     THEN <<IF cl[d].isAuthenticated THEN encrypt(event, d) ELSE sendEvent(event)>>
     ELSE <<>>]

RECURSIVE TransmitAll(_, _, _)
TransmitAll(log, c, frames) ==
  IF frames = <<>> THEN log
  ELSE TransmitAll(Transmit(log, c, Head(frames)), c, Tail(frames))

\* the logs after a response to c followed by a broadcast
SentAfter(c, responseFrames, fanout) ==
  [d \in Conns |->
     TransmitAll(sent[d], d, (IF d = c THEN responseFrames ELSE <<>>) \o fanout[d])]

NoFanout == [d \in Conns |-> <<>>]


\* ------------------------------------------------------------- shared Redis client
NoCont ==
  [kind |-> "", pc |-> "", conn |-> 0, id |-> 0, collection |-> NoString,
   key |-> NoString, value |-> NoValue, userId |-> NoString, storage |-> NoStorage]

\* one command on the pipeline: owner is the prefix of the tenant adapter that issued it
\* (NoString for the bucket manager's own commands), k the code waiting for the reply
Cmd(cmd, rkey, rval, rkeys, owner, k) ==
  [cmd |-> cmd, rkey |-> rkey, rval |-> rval, rkeys |-> rkeys, owner |-> owner, k |-> k]

Stored(store, rkey) == rkey \in DOMAIN store
StoreSet(store, rkey, rval) ==
  [x \in (DOMAIN store) \cup {rkey} |-> IF x = rkey THEN rval ELSE store[x]]
StoreDel(store, rkeys) == [x \in (DOMAIN store) \ rkeys |-> store[x]]
\* KEYS pattern
StoreKeys(store, pattern) == {x \in DOMAIN store : GlobMatch(pattern, x)}

\* the string keyspace after the command at the head of the pipeline
RedisApply(e) ==
  CASE e.cmd = "SET" -> StoreSet(redis, e.rkey, e.rval)
    [] e.cmd = "DEL" -> StoreDel(redis, {e.rkey})
    [] e.cmd = "DELMANY" -> StoreDel(redis, e.rkeys)
    [] OTHER -> redis

\* the set `all_users` after the command
RedisApplySet(e) ==
  CASE e.cmd = "SADD" -> allUsers \cup {e.rkey}
    [] e.cmd = "SREM" -> allUsers \ {e.rkey}
    [] OTHER -> allUsers

\* the keys the command reads, writes or deletes
RedisTouched(e) ==
  CASE e.cmd \in {"SET", "GET", "DEL"} -> {e.rkey}
    [] e.cmd = "DELMANY" -> e.rkeys
    [] e.cmd = "KEYS" -> StoreKeys(redis, e.rkey)
    [] OTHER -> {}

\* history of tenant-adapter commands: the adapter's prefix, the connection whose request
\* it serves, and the keys the command touched
OpAfter(e) ==
  IF e.owner = NoString THEN lastOp
  ELSE [owner |-> e.owner, conn |-> e.k.conn, touched |-> RedisTouched(e)]

Issue(queue, e) == Append(queue, e)

\* ------------------------------------------------------------- namespaced adapter: reads
\* UserRedisAdapter.get on the current store (server side registers no schema: validate is a no-op)
adapterGet(prefix, collection, key) ==
  LET redisKey == formatKey(prefix, collection, key)
  IN IF Stored(redis, redisKey) THEN deserialize(redis[redisKey]) ELSE NoValue

adapterHas(prefix, collection, key) == Stored(redis, formatKey(prefix, collection, key))

\* UserRedisAdapter.keys on a KEYS reply
adapterKeys(prefix, found) == {parseKey(prefix, x) : x \in found} \ {NoString}

\* UserRedisAdapter.size
adapterSize(prefix, collection) == Cardinality(StoreKeys(redis, scanPattern(prefix, collection)))

\* ------------------------------------------------------------- client adapter: sending
\* values the caller may pass to set; the adapter's schema admits Values only
InvalidValues == {3}

\* BaseStorage.validate under the registered schema: does the value parse
validate(value) == value \in Values

Requests ==
  {[EmptyMsg EXCEPT !.action = a, !.collection = col, !.key = k] :
      a \in {"get", "delete"}, col \in Collections, k \in Keys}
    \cup {[EmptyMsg EXCEPT !.action = "set", !.collection = col, !.key = k, !.value = v] :
            col \in Collections, k \in Keys, v \in Values \cup InvalidValues}
    \cup {[EmptyMsg EXCEPT !.action = a, !.collection = col] :
            a \in {"clear", "size"}, col \in Collections \cup {NoString}}
    \cup {[EmptyMsg EXCEPT !.action = "keys", !.collection = col] : col \in Collections}
    \cup {[EmptyMsg EXCEPT !.action = "admin_list_users"]}
    \cup {[EmptyMsg EXCEPT !.action = a, !.userId = u] :
            a \in {"admin_delete_user", "admin_user_info"}, u \in UserIds}

\* what set() does before sendRequest: schema.parse throws on an invalid value
Sendable(msg) == msg.action = "set" => validate(msg.value)

\* WebSocketAdapter.encrypt
adapterEncrypt(c, msg) ==
  IF ad[c].encKey = NoKey THEN PlainFrame(msg)
  ELSE CipherFrame(msg, ad[c].encKey, ad[c].encIv)

HelloMsg(token) == [EmptyMsg EXCEPT !.type = "hello", !.token = token]

\* WebSocketAdapter.sendRequest: the frames an authenticated adapter can put on the wire.
\* Calls of the adapter's API are numbered, and a frame carries the number of its call as
\* its correlation id
RequestFrames(c, requests) ==
  IF ad[c].peer = "adapter" /\ ad[c].connected /\ ad[c].authenticated /\ ctr.id < MaxReqs
  THEN {adapterEncrypt(c, [m EXCEPT !.id = ctr.id + 1]) : m \in {r \in requests : Sendable(r)}}
  ELSE {}

\* frames a peer that does not follow the adapter's protocol can put on the wire
RawFrames(c) ==
  IF ctr.raw < MaxRaw
  THEN {PlainFrame(HelloMsg(t)) : t \in Tokens}
         \cup {PlainFrame([HelloMsg("5") EXCEPT !.tokenIsString = FALSE]),
               PlainFrame([EmptyMsg EXCEPT !.type = "ping"]),
               JunkFrame}
         \cup (IF cl[c].encryptionKey # NoKey
               THEN {CipherFrame([EmptyMsg EXCEPT !.action = "noop"],
                                 cl[c].encryptionKey, cl[c].iv)}
               ELSE {})
  ELSE {}

\* the frames that can arrive on c now: an adapter's first frame is its hello (sendHello in onopen)
PeerFrames(c, requests, raw) ==
  IF ws[c] # "open" THEN {}
  ELSE IF ad[c].peer = "adapter" /\ ~ad[c].helloSent
  THEN {PlainFrame(HelloMsg(ad[c].token))}
  ELSE RequestFrames(c, requests) \cup (IF raw THEN RawFrames(c) ELSE {})

\* bookkeeping of the peer once frame f of PeerFrames(c) has been taken off the wire
AdAfter(c, f) ==
  IF ad[c].peer = "adapter" /\ ~ad[c].helloSent THEN [ad EXCEPT ![c].helloSent = TRUE]
  ELSE IF f.enc /\ f.body.id # 0 THEN ad
  ELSE [ad EXCEPT ![c].stray = @ + 1]

CtrAfter(c, f) ==
  IF ad[c].peer = "adapter" /\ ~ad[c].helloSent THEN ctr
  ELSE IF f.enc /\ f.body.id # 0 THEN [ctr EXCEPT !.id = @ + 1]
  ELSE [ctr EXCEPT !.raw = @ + 1]

\* ------------------------------------------------------------- transport
\* websocket.open on the server and onopen on the peer
Open(c, token, peer) ==
  /\ ws[c] = "idle"
  /\ \A d \in Conns : d < c => ws[d] # "idle"
  /\ peer = "raw" => token = "" /\ ctr.raw < MaxRaw
  /\ peer = "adapter" => token # ""
  /\ ws' = [ws EXCEPT ![c] = "open"]
  /\ clients' = clients \cup {c}
  /\ cl' = [cl EXCEPT ![c] = NewClient]
  /\ ad' = [ad EXCEPT ![c] = [NewAdapter EXCEPT !.peer = peer, !.token = token,
                                              !.connected = TRUE]]
  /\ UNCHANGED <<failures, clientsByChannel, helloTasks, sent, redisQ, redis, allUsers, buckets,
                 metadataCache, ctr, req, dispatched, lastOp>>

\* websocket.close on the server: the connection leaves its channel and the client set
CloseHandler(c) ==
  /\ ws[c] \in {"open", "closing"}
  /\ ws' = [ws EXCEPT ![c] = "closed"]
  /\ IF c \in clients
     THEN /\ clients' = clients \ {c}
          /\ LET ch == cl[c].channelId
             IN IF ch # NoString /\ ch \in DOMAIN clientsByChannel
                THEN LET left == clientsByChannel[ch] \ {c}
                     IN clientsByChannel' =
                          IF left = {}
                          THEN [x \in (DOMAIN clientsByChannel) \ {ch} |-> clientsByChannel[x]]
                          ELSE [clientsByChannel EXCEPT ![ch] = left]
                ELSE UNCHANGED clientsByChannel
     ELSE UNCHANGED <<clients, clientsByChannel>>
  /\ UNCHANGED <<failures, cl, helloTasks, sent, redisQ, redis, allUsers, buckets, metadataCache,
                 ad, ctr, req, dispatched, lastOp>>

\* ------------------------------------------------------------- server: handshake
\* history: the handshake on c failed in the given way
Failure(c, kind) == failures \cup {[conn |-> c, kind |-> kind]}

\* websocket.message while the Client is not authenticated
OnMessageUnauthenticated(c, f) ==
  /\ ws[c] = "open"
  /\ c \in clients
  /\ ~cl[c].isAuthenticated
  /\ ad' = AdAfter(c, f)
  /\ LET reply(text) == [sent EXCEPT ![c] = Transmit(@, c, sendEvent(ErrorEvent(text)))]
     IN IF ~JsonParsable(f)
        THEN /\ sent' = reply("Invalid JSON message")
             /\ ctr' = CtrAfter(c, f)
             /\ failures' = Failure(c, "unparsable frame")
             /\ UNCHANGED helloTasks
        ELSE IF f.body.type = "hello" /\ f.body.token # ""
        THEN \* handleHello up to its first await
             IF ~f.body.tokenIsString
             THEN /\ sent' = reply("Invalid hello message")
                  /\ ctr' = CtrAfter(c, f)
                  /\ failures' = Failure(c, "hello schema")
                  /\ UNCHANGED helloTasks
             ELSE /\ helloTasks' = helloTasks \cup
                       {[conn |-> c, n |-> ctr.hello + 1, token |-> f.body.token]}
                  /\ ctr' = [CtrAfter(c, f) EXCEPT !.hello = @ + 1]
                  /\ UNCHANGED <<sent, failures>>
        ELSE /\ sent' = reply("Not authenticated. Send hello message first.")
             /\ ctr' = CtrAfter(c, f)
             /\ failures' = Failure(c, "non-hello frame")
             /\ UNCHANGED helloTasks
  /\ UNCHANGED <<ws, clients, cl, clientsByChannel, redisQ, redis, allUsers, buckets,
                 metadataCache, req, dispatched, lastOp>>

metadataJson == serialize(-1)

HelloCont(c, pc, userId, storage) ==
  [NoCont EXCEPT !.kind = "hello", !.pc = pc, !.conn = c, !.userId = userId,
                 !.storage = storage]

\* UserBucketManager.createBucketForUser: a new adapter instance over the tenant prefix
createBucketForUser(userId, inst) == [inst |-> inst, prefix |-> formatUserDataPrefix(userId)]

\* clientsByChannel after handleHello's join of c to channelId
Joined(channelId, c) ==
  [x \in (DOMAIN clientsByChannel) \cup {channelId} |->
     IF x = channelId THEN Members(channelId) \cup {c} ELSE clientsByChannel[x]]

\* validateToken throws: handleHello ends as an unhandled rejection
HelloValidateThrows(task) ==
  /\ task \in helloTasks
  /\ ctr.fail < MaxFails
  /\ ctr' = [ctr EXCEPT !.fail = @ + 1]
  /\ helloTasks' = helloTasks \ {task}
  /\ failures' = Failure(task.conn, "validateToken threw")
  /\ UNCHANGED <<ws, clients, cl, clientsByChannel, sent, redisQ, redis, allUsers,
                 buckets, metadataCache, ad, req, dispatched, lastOp>>

\* a rejection that sends the error frame and leaves the transport open
HelloRejectedLeftOpen(task) ==
  /\ task \in helloTasks
  /\ ~validateToken(task.token)
  /\ helloTasks' = helloTasks \ {task}
  /\ sent' = [sent EXCEPT ![task.conn] =
                Transmit(@, task.conn, sendEvent(ErrorEvent("Invalid token")))]
  /\ failures' = Failure(task.conn, "token rejected")
  /\ UNCHANGED <<ws, clients, cl, clientsByChannel, redisQ, redis, allUsers, buckets,
                 metadataCache, ad, ctr, req, dispatched, lastOp>>

\* validateToken returned false
HelloRejected(task) ==
  /\ task \in helloTasks
  /\ ~validateToken(task.token)
  /\ helloTasks' = helloTasks \ {task}
  /\ sent' = [sent EXCEPT ![task.conn] =
                Transmit(@, task.conn, sendEvent(ErrorEvent("Invalid token")))]
  /\ ws' = [ws EXCEPT ![task.conn] = IF @ = "open" THEN "closing" ELSE @]
  /\ failures' = Failure(task.conn, "token rejected")
  /\ UNCHANGED <<clients, cl, clientsByChannel, redisQ, redis, allUsers, buckets,
                 metadataCache, ad, ctr, req, dispatched, lastOp>>

\* validateToken returned true: handleHello from line 814 to the await of ensureUserBucket,
\* and ensureUserBucket up to its first Redis command (or to its return)
HelloAccepted(task, wiv) ==
  /\ task \in helloTasks
  /\ validateToken(task.token)
  /\ helloTasks' = helloTasks \ {task}
  /\ LET c == task.conn
         channelId == deriveChannelId(task.token)
         encryptionKey == ctr.key + 1
         iv == 1
         helloFrame == PlainFrame([EmptyBody EXCEPT !.type = "hello", !.channelId = channelId])
         encryptionFrame ==
           PlainFrame([EmptyBody EXCEPT !.type = "encryption",
                         !.sealed = [tok |-> task.token, sk |-> encryptionKey, wiv |-> wiv],
                         !.ivField = iv])
         userId == formatUserId(task.token)
         authed == [cl[c] EXCEPT !.token = task.token, !.channelId = channelId,
                                 !.encryptionKey = encryptionKey, !.iv = iv,
                                 !.isAuthenticated = TRUE]
         metaSet(pc, storage) ==
           Cmd("SET", formatUserMetadataKey(userId), metadataJson, {}, NoString,
               HelloCont(c, pc, userId, storage))
     IN /\ sent' = [sent EXCEPT ![c] = TransmitAll(@, c, <<helloFrame, encryptionFrame>>)]
        /\ IF userId \in DOMAIN buckets
           THEN IF userId \in metadataCache
                THEN \* cached bucket, updateLastAccessed writes the metadata
                     /\ redisQ' = Issue(redisQ, metaSet("touch", buckets[userId]))
                     /\ cl' = [cl EXCEPT ![c] = authed]
                     /\ ctr' = [ctr EXCEPT !.key = @ + 1]
                     /\ UNCHANGED <<buckets, clientsByChannel>>
                ELSE \* cached bucket, no metadata: ensureUserBucket returns at once
                     /\ cl' = [cl EXCEPT ![c] = [authed EXCEPT !.storage = buckets[userId]]]
                     /\ clientsByChannel' = Joined(channelId, c)
                     /\ ctr' = [ctr EXCEPT !.key = @ + 1]
                     /\ UNCHANGED <<buckets, redisQ>>
           ELSE IF userId \notin metadataCache
                THEN \* createUserMetadata: SET of the metadata key
                     /\ redisQ' = Issue(redisQ, metaSet("create_set", NoStorage))
                     /\ cl' = [cl EXCEPT ![c] = authed]
                     /\ ctr' = [ctr EXCEPT !.key = @ + 1]
                     /\ UNCHANGED <<buckets, clientsByChannel>>
                ELSE \* known tenant without adapter: create it, then updateLastAccessed
                     LET bucket == createBucketForUser(userId, ctr.inst + 1)
                     IN /\ buckets' = StoreSet(buckets, userId, bucket)
                        /\ redisQ' = Issue(redisQ, metaSet("touch", bucket))
                        /\ cl' = [cl EXCEPT ![c] = authed]
                        /\ ctr' = [ctr EXCEPT !.key = @ + 1, !.inst = @ + 1]
                        /\ UNCHANGED clientsByChannel
  /\ UNCHANGED <<failures, ws, clients, redis, allUsers, metadataCache, ad, req, dispatched,
                 lastOp>>

\* a Redis command may fail (connection lost, server error): the awaiting code sees a throw
MayFail(ok) == ok \/ ctr.fail < MaxFails
FailCtr(ok) == IF ok THEN ctr ELSE [ctr EXCEPT !.fail = @ + 1]

HeadIs(kind, pc) ==
  /\ redisQ # <<>>
  /\ Head(redisQ).k.kind = kind
  /\ Head(redisQ).k.pc = pc

\* createUserMetadata: reply to SET user_metadata:{id}; SADD all_users follows
ReplyCreateSet(ok) ==
  /\ HeadIs("hello", "create_set")
  /\ MayFail(ok)
  /\ ctr' = FailCtr(ok)
  /\ LET e == Head(redisQ)
     IN IF ok
        THEN /\ redis' = RedisApply(e)
             /\ redisQ' = Issue(Tail(redisQ),
                            Cmd("SADD", e.k.userId, NoValue, {}, NoString,
                                [e.k EXCEPT !.pc = "create_sadd"]))
        ELSE /\ redisQ' = Tail(redisQ)
             /\ UNCHANGED redis
  /\ failures' = IF ok THEN failures ELSE Failure(Head(redisQ).k.conn, "ensureUserBucket threw")
  /\ UNCHANGED <<ws, clients, cl, clientsByChannel, helloTasks, sent, allUsers,
                 buckets, metadataCache, ad, req, dispatched, lastOp>>

\* createUserMetadata: reply to SADD; then ensureUserBucket lines 235-237
ReplyCreateSadd(ok) ==
  /\ HeadIs("hello", "create_sadd")
  /\ MayFail(ok)
  /\ LET e == Head(redisQ)
         bucket == createBucketForUser(e.k.userId, ctr.inst + 1)
     IN IF ok
        THEN /\ allUsers' = RedisApplySet(e)
             /\ metadataCache' = metadataCache \cup {e.k.userId}
             /\ buckets' = StoreSet(buckets, e.k.userId, bucket)
             /\ ctr' = [ctr EXCEPT !.inst = @ + 1]
             /\ redisQ' = Issue(Tail(redisQ),
                            Cmd("SET", formatUserMetadataKey(e.k.userId), metadataJson, {},
                                NoString, [e.k EXCEPT !.pc = "touch", !.storage = bucket]))
        ELSE /\ redisQ' = Tail(redisQ)
             /\ ctr' = FailCtr(ok)
             /\ UNCHANGED <<allUsers, metadataCache, buckets>>
  /\ failures' = IF ok THEN failures ELSE Failure(Head(redisQ).k.conn, "ensureUserBucket threw")
  /\ UNCHANGED <<ws, clients, cl, clientsByChannel, helloTasks, sent, redis, ad,
                 req, dispatched, lastOp>>

\* updateLastAccessed: reply to SET; ensureUserBucket returns and handleHello
\* attaches the adapter and joins the channel (lines 840-845)
ReplyTouch(ok) ==
  /\ HeadIs("hello", "touch")
  /\ MayFail(ok)
  /\ ctr' = FailCtr(ok)
  /\ redisQ' = Tail(redisQ)
  /\ LET e == Head(redisQ)
         c == e.k.conn
     IN IF ok
        THEN /\ redis' = RedisApply(e)
             /\ metadataCache' = metadataCache \cup {e.k.userId}
             /\ cl' = [cl EXCEPT ![c].storage = e.k.storage]
             /\ clientsByChannel' = Joined(cl[c].channelId, c)
        ELSE UNCHANGED <<redis, metadataCache, cl, clientsByChannel>>
  /\ failures' = IF ok THEN failures ELSE Failure(Head(redisQ).k.conn, "ensureUserBucket threw")
  /\ UNCHANGED <<ws, clients, helloTasks, sent, allUsers, buckets, ad, req,
                 dispatched, lastOp>>


\* ------------------------------------------------------------- server: request dispatcher
StorageActions == {"get", "set", "delete", "clear", "size", "keys"}
AdminActions == {"admin_list_users", "admin_delete_user", "admin_user_info"}

\* WebSocketStorageServer.validateClientMessage: some schema matches
validateClientMessage(msg) == msg.action \in StorageActions \cup AdminActions /\ msg.id # 0

NotInitialized == "Client not authenticated or storage not initialized"

\* websocket.message on an authenticated Client whose frame decrypts and matches a schema
Dispatch(c, f, action) ==
  /\ ws[c] = "open"
  /\ c \in clients
  /\ cl[c].isAuthenticated
  /\ Decryptable(f, cl[c].encryptionKey)
  /\ validateClientMessage(f.body)
  /\ f.body.action = action
  /\ ad' = AdAfter(c, f)
  /\ ctr' = CtrAfter(c, f)

ReqCont(c, msg, pc) ==
  [NoCont EXCEPT !.kind = msg.action, !.pc = pc, !.conn = c, !.id = msg.id,
                 !.collection = msg.collection, !.key = msg.key, !.value = msg.value,
                 !.userId = msg.userId, !.storage = cl[c].storage]

Mark(id, st) == [req EXCEPT ![id].st = st]
Started(c, msg, st) == [req EXCEPT ![msg.id] = [conn |-> c, action |-> msg.action, st |-> st]]

\* a catch block that swallows the error: the peer is sent nothing
OnMessageInvalidSilent(c, f) ==
  /\ ws[c] = "open"
  /\ c \in clients
  /\ cl[c].isAuthenticated
  /\ ~(Decryptable(f, cl[c].encryptionKey) /\ validateClientMessage(f.body))
  /\ ad' = AdAfter(c, f)
  /\ ctr' = CtrAfter(c, f)
  /\ UNCHANGED <<failures, ws, clients, cl, clientsByChannel, helloTasks, redisQ, redis, allUsers,
                 buckets, metadataCache, req, dispatched, lastOp, sent>>

\* handleMessage's catch: the frame does not decrypt or matches no schema
OnMessageInvalid(c, f) ==
  /\ ws[c] = "open"
  /\ c \in clients
  /\ cl[c].isAuthenticated
  /\ ~(Decryptable(f, cl[c].encryptionKey) /\ validateClientMessage(f.body))
  /\ ad' = AdAfter(c, f)
  /\ ctr' = CtrAfter(c, f)
  /\ sent' = [sent EXCEPT ![c] =
                Transmit(@, c, sendEvent(ErrorEvent("Invalid message")))]
  /\ UNCHANGED <<failures, ws, clients, cl, clientsByChannel, helloTasks, redisQ, redis, allUsers,
                 buckets, metadataCache, req, dispatched, lastOp>>

\* the first Redis command of each storage handler's adapter call
FirstCmd(c, msg) ==
  LET prefix == cl[c].storage.prefix
      redisKey == formatKey(prefix, msg.collection, msg.key)
  IN CASE msg.action = "get" -> Cmd("GET", redisKey, NoValue, {}, prefix, ReqCont(c, msg, "reply"))
       [] msg.action = "set" ->
            Cmd("SET", redisKey, serialize(msg.value), {}, prefix, ReqCont(c, msg, "reply"))
       [] msg.action = "delete" ->
            Cmd("DEL", redisKey, NoValue, {}, prefix, ReqCont(c, msg, "reply"))
       [] OTHER ->
            Cmd("KEYS", scanPattern(prefix, msg.collection), NoValue, {}, prefix,
                ReqCont(c, msg, "keys"))

\* handleGet .. handleKeys up to the adapter's Redis command
HandleStorage(c, f) ==
  /\ f.body.action \in StorageActions
  /\ Dispatch(c, f, f.body.action)
  /\ LET msg == f.body
     IN IF cl[c].storage = NoStorage
        THEN /\ sent' = [sent EXCEPT ![c] =
                           Transmit(@, c, send(c, ErrorResponse(msg.id, NotInitialized)))]
             /\ req' = Started(c, msg, "done")
             /\ UNCHANGED redisQ
        ELSE /\ redisQ' = Issue(redisQ, FirstCmd(c, msg))
             /\ req' = Started(c, msg, "handling")
             /\ UNCHANGED sent
  /\ UNCHANGED <<failures, ws, clients, cl, clientsByChannel, helloTasks, redis, allUsers, buckets,
                 metadataCache, dispatched, lastOp>>

\* handleAdminListUsers
handleAdminListUsers(c, f) ==
  /\ Dispatch(c, f, "admin_list_users")
  /\ LET msg == f.body
     IN /\ sent' = [sent EXCEPT ![c] =
                      Transmit(@, c, send(c, ResultResponse(msg.id, <<"users", metadataCache>>)))]
        /\ req' = Started(c, msg, "done")
  /\ UNCHANGED <<failures, ws, clients, cl, clientsByChannel, helloTasks, redisQ, redis, allUsers,
                 buckets, metadataCache, dispatched, lastOp>>

\* handleAdminUserInfo
handleAdminUserInfo(c, f) ==
  /\ Dispatch(c, f, "admin_user_info")
  /\ LET msg == f.body
     IN /\ sent' = [sent EXCEPT ![c] =
                      Transmit(@, c, send(c, ResultResponse(msg.id,
                                 <<"metadata", msg.userId \in metadataCache>>)))]
        /\ req' = Started(c, msg, "done")
  /\ UNCHANGED <<failures, ws, clients, cl, clientsByChannel, helloTasks, redisQ, redis, allUsers,
                 buckets, metadataCache, dispatched, lastOp>>

\* handleAdminDeleteUser and deleteUserBucket up to its first Redis command
handleAdminDeleteUser(c, f) ==
  /\ Dispatch(c, f, "admin_delete_user")
  /\ LET msg == f.body
         userId == msg.userId
     IN IF userId \notin metadataCache
        THEN /\ sent' = [sent EXCEPT ![c] =
                           Transmit(@, c, send(c, ResultResponse(msg.id, <<"success", FALSE>>)))]
             /\ req' = Started(c, msg, "done")
             /\ UNCHANGED redisQ
        ELSE /\ req' = Started(c, msg, "handling")
             /\ UNCHANGED sent
             /\ IF userId \in DOMAIN buckets
                THEN \* bucket.clear(): KEYS {prefix}:*
                     redisQ' = Issue(redisQ,
                        Cmd("KEYS", scanPattern(buckets[userId].prefix, NoString), NoValue, {},
                            buckets[userId].prefix,
                            [ReqCont(c, msg, "dub_keys") EXCEPT !.storage = buckets[userId]]))
                ELSE redisQ' = Issue(redisQ,
                        Cmd("DEL", formatUserMetadataKey(userId), NoValue, {}, NoString,
                            ReqCont(c, msg, "dub_delmeta")))
  /\ UNCHANGED <<failures, ws, clients, cl, clientsByChannel, helloTasks, redis, allUsers, buckets,
                 metadataCache, dispatched, lastOp>>


\* ------------------------------------------------------------- server: handlers after the await
Event(ev, collection, key, value, cause) ==
  [EmptyBody EXCEPT !.type = "event", !.event = ev, !.collection = collection,
                    !.key = key, !.value = value, !.cause = cause]

StorageError == "Redis command failed"

\* a catch block that answers with the error and broadcasts the mutation all the same
FailedAfterBroadcast(e) ==
  /\ sent' = SentAfter(e.k.conn, <<send(e.k.conn, ErrorResponse(e.k.id, StorageError))>>,
                       broadcastToChannel(cl[e.k.conn].channelId,
                         Event(e.k.kind, e.k.collection, e.k.key, e.k.value, e.k.id), e.k.conn))
  /\ req' = Mark(e.k.id, "done")
  /\ UNCHANGED <<redis, dispatched, lastOp>>

\* the response of the handler's catch block
Failed(e) ==
  /\ sent' = SentAfter(e.k.conn, <<send(e.k.conn, ErrorResponse(e.k.id, StorageError))>>, NoFanout)
  /\ req' = Mark(e.k.id, "done")
  /\ UNCHANGED <<redis, dispatched, lastOp>>

\* the response alone
Respond(e, result) ==
  /\ sent' = SentAfter(e.k.conn, <<send(e.k.conn, ResultResponse(e.k.id, result))>>, NoFanout)
  /\ req' = Mark(e.k.id, "done")
  /\ UNCHANGED dispatched

\* the response, then the broadcast to the Client's channel, the Client excluded
RespondAndBroadcast(e, result, event) ==
  LET c == e.k.conn
      channelId == cl[c].channelId
  IN /\ sent' = SentAfter(c, <<send(c, ResultResponse(e.k.id, result))>>,
                          broadcastToChannel(channelId, event, c))
     /\ req' = Mark(e.k.id, "done")
     /\ dispatched' = StoreSet(dispatched, e.k.id,
                        [origin |-> c, channel |-> channelId, members |-> Members(channelId)])

\* handleGet, lines 553-566
ReplyGet(ok) ==
  /\ HeadIs("get", "reply")
  /\ MayFail(ok)
  /\ ctr' = FailCtr(ok)
  /\ redisQ' = Tail(redisQ)
  /\ LET e == Head(redisQ)
     IN IF ok
        THEN /\ Respond(e, <<"value", adapterGet(e.owner, e.k.collection, e.k.key)>>)
             /\ lastOp' = OpAfter(e)
             /\ UNCHANGED redis
        ELSE Failed(e)
  /\ UNCHANGED <<failures, ws, clients, cl, clientsByChannel, helloTasks, allUsers, buckets,
                 metadataCache, ad>>

\* a handleSet that answers and broadcasts without the value having been written
ReplySetUnpersisted(ok) ==
  /\ HeadIs("set", "reply")
  /\ MayFail(ok)
  /\ ctr' = FailCtr(ok)
  /\ redisQ' = Tail(redisQ)
  /\ LET e == Head(redisQ)
     IN IF ok
        THEN /\ UNCHANGED redis
             /\ lastOp' = OpAfter(e)
             /\ RespondAndBroadcast(e, <<"set", e.k.key>>,
                  Event("set", e.k.collection, e.k.key, e.k.value, e.k.id))
        ELSE Failed(e)
  /\ UNCHANGED <<failures, ws, clients, cl, clientsByChannel, helloTasks, allUsers, buckets,
                 metadataCache, ad>>

\* a handleSet whose write does not replace a value already stored
ReplySetFirstWins(ok) ==
  /\ HeadIs("set", "reply")
  /\ MayFail(ok)
  /\ ctr' = FailCtr(ok)
  /\ redisQ' = Tail(redisQ)
  /\ LET e == Head(redisQ)
     IN IF ok
        THEN /\ redis' = IF Stored(redis, e.rkey) THEN redis ELSE RedisApply(e)
             /\ lastOp' = OpAfter(e)
             /\ RespondAndBroadcast(e, <<"set", e.k.key>>,
                  Event("set", e.k.collection, e.k.key, e.k.value, e.k.id))
        ELSE Failed(e)
  /\ UNCHANGED <<failures, ws, clients, cl, clientsByChannel, helloTasks, allUsers, buckets,
                 metadataCache, ad>>

\* handleSet, lines 580-606
ReplySet(ok) ==
  /\ HeadIs("set", "reply")
  /\ MayFail(ok)
  /\ ctr' = FailCtr(ok)
  /\ redisQ' = Tail(redisQ)
  /\ LET e == Head(redisQ)
     IN IF ok
        THEN /\ redis' = RedisApply(e)
             /\ lastOp' = OpAfter(e)
             /\ RespondAndBroadcast(e, <<"set", e.k.key>>,
                  Event("set", e.k.collection, e.k.key, e.k.value, e.k.id))
        ELSE Failed(e)
  /\ UNCHANGED <<failures, ws, clients, cl, clientsByChannel, helloTasks, allUsers, buckets,
                 metadataCache, ad>>

\* handleDelete, lines 620-646: success is DEL's reply being 1
ReplyDelete(ok) ==
  /\ HeadIs("delete", "reply")
  /\ MayFail(ok)
  /\ ctr' = FailCtr(ok)
  /\ redisQ' = Tail(redisQ)
  /\ LET e == Head(redisQ)
         success == Stored(redis, e.rkey)
     IN IF ok
        THEN /\ redis' = RedisApply(e)
             /\ lastOp' = OpAfter(e)
             /\ IF success
                THEN RespondAndBroadcast(e, <<"success", success>>,
                       Event("delete", e.k.collection, e.k.key, NoValue, e.k.id))
                ELSE Respond(e, <<"success", success>>)
        ELSE Failed(e)
  /\ UNCHANGED <<failures, ws, clients, cl, clientsByChannel, helloTasks, allUsers, buckets,
                 metadataCache, ad>>

\* handleSize and handleKeys, lines 696-708 and 722-734
ReplyScan(ok) ==
  /\ redisQ # <<>>
  /\ MayFail(ok)
  /\ ctr' = FailCtr(ok)
  /\ Head(redisQ).k.kind \in {"size", "keys"}
  /\ redisQ' = Tail(redisQ)
  /\ LET e == Head(redisQ)
         found == StoreKeys(redis, e.rkey)
     IN IF ok
        THEN /\ IF e.k.kind = "size"
                THEN Respond(e, <<"size", Cardinality(found)>>)
                ELSE Respond(e, <<"keys", adapterKeys(e.owner, found)>>)
             /\ lastOp' = OpAfter(e)
             /\ UNCHANGED redis
        ELSE Failed(e)
  /\ UNCHANGED <<failures, ws, clients, cl, clientsByChannel, helloTasks, allUsers, buckets,
                 metadataCache, ad>>

ClearEvent(e) ==
  Event("clear", IF e.k.collection # NoString THEN e.k.collection ELSE <<"all">>,
        NoString, NoValue, e.k.id)

\* UserRedisAdapter.clear after KEYS: DEL of the keys found, or handleClear's response
ReplyClearKeys(ok) ==
  /\ HeadIs("clear", "keys")
  /\ MayFail(ok)
  /\ ctr' = FailCtr(ok)
  /\ LET e == Head(redisQ)
         found == StoreKeys(redis, e.rkey)
     IN IF ok
        THEN /\ lastOp' = OpAfter(e)
             /\ UNCHANGED redis
             /\ IF found # {}
                THEN /\ redisQ' = Issue(Tail(redisQ),
                                    Cmd("DELMANY", NoString, NoValue, found, e.owner,
                                        [e.k EXCEPT !.pc = "del"]))
                     /\ UNCHANGED <<sent, req, dispatched>>
                ELSE /\ redisQ' = Tail(redisQ)
                     /\ RespondAndBroadcast(e, <<"count", 0>>, ClearEvent(e))
        ELSE /\ redisQ' = Tail(redisQ)
             /\ Failed(e)
  /\ UNCHANGED <<failures, ws, clients, cl, clientsByChannel, helloTasks, allUsers, buckets,
                 metadataCache, ad>>

\* handleClear, lines 664-682, after the adapter's DEL
ReplyClearDel(ok) ==
  /\ HeadIs("clear", "del")
  /\ MayFail(ok)
  /\ ctr' = FailCtr(ok)
  /\ redisQ' = Tail(redisQ)
  /\ LET e == Head(redisQ)
     IN IF ok
        THEN /\ redis' = RedisApply(e)
             /\ lastOp' = OpAfter(e)
             /\ RespondAndBroadcast(e, <<"count", 0>>, ClearEvent(e))
        ELSE Failed(e)
  /\ UNCHANGED <<failures, ws, clients, cl, clientsByChannel, helloTasks, allUsers, buckets,
                 metadataCache, ad>>

\* ------------------------------------------------------------- bucket manager: deleteUserBucket
BucketsWithout(userId) == [x \in (DOMAIN buckets) \ {userId} |-> buckets[x]]

DelMeta(e) ==
  Cmd("DEL", formatUserMetadataKey(e.k.userId), NoValue, {}, NoString,
      [e.k EXCEPT !.pc = "dub_delmeta"])

\* bucket.clear() after KEYS (line 302)
ReplyDubKeys(ok) ==
  /\ HeadIs("admin_delete_user", "dub_keys")
  /\ MayFail(ok)
  /\ ctr' = FailCtr(ok)
  /\ LET e == Head(redisQ)
         found == StoreKeys(redis, e.rkey)
     IN IF ok
        THEN /\ lastOp' = OpAfter(e)
             /\ UNCHANGED <<redis, sent, req, dispatched>>
             /\ IF found # {}
                THEN /\ redisQ' = Issue(Tail(redisQ),
                                    Cmd("DELMANY", NoString, NoValue, found, e.owner,
                                        [e.k EXCEPT !.pc = "dub_del"]))
                     /\ UNCHANGED buckets
                ELSE /\ buckets' = BucketsWithout(e.k.userId)
                     /\ redisQ' = Issue(Tail(redisQ), DelMeta(e))
        ELSE /\ redisQ' = Tail(redisQ)
             /\ Failed(e)
             /\ UNCHANGED buckets
  /\ UNCHANGED <<failures, ws, clients, cl, clientsByChannel, helloTasks, allUsers,
                 metadataCache, ad>>

\* bucket.clear() after DEL, buckets.delete, then DEL of the metadata key (lines 303-307)
ReplyDubDel(ok) ==
  /\ HeadIs("admin_delete_user", "dub_del")
  /\ MayFail(ok)
  /\ ctr' = FailCtr(ok)
  /\ LET e == Head(redisQ)
     IN IF ok
        THEN /\ redis' = RedisApply(e)
             /\ lastOp' = OpAfter(e)
             /\ buckets' = BucketsWithout(e.k.userId)
             /\ redisQ' = Issue(Tail(redisQ), DelMeta(e))
             /\ UNCHANGED <<sent, req, dispatched>>
        ELSE /\ redisQ' = Tail(redisQ)
             /\ Failed(e)
             /\ UNCHANGED buckets
  /\ UNCHANGED <<failures, ws, clients, cl, clientsByChannel, helloTasks, allUsers,
                 metadataCache, ad>>

\* after DEL user_metadata:{id}: SREM all_users (line 308)
ReplyDubDelMeta(ok) ==
  /\ HeadIs("admin_delete_user", "dub_delmeta")
  /\ MayFail(ok)
  /\ ctr' = FailCtr(ok)
  /\ LET e == Head(redisQ)
     IN IF ok
        THEN /\ redis' = RedisApply(e)
             /\ redisQ' = Issue(Tail(redisQ),
                            Cmd("SREM", e.k.userId, NoValue, {}, NoString,
                                [e.k EXCEPT !.pc = "dub_srem"]))
             /\ UNCHANGED <<sent, req, dispatched, lastOp>>
        ELSE /\ redisQ' = Tail(redisQ)
             /\ Failed(e)
  /\ UNCHANGED <<failures, ws, clients, cl, clientsByChannel, helloTasks, allUsers, buckets,
                 metadataCache, ad>>

\* after SREM: the cache entry goes and handleAdminDeleteUser responds (lines 310-313, 764-767)
ReplyDubSrem(ok) ==
  /\ HeadIs("admin_delete_user", "dub_srem")
  /\ MayFail(ok)
  /\ ctr' = FailCtr(ok)
  /\ redisQ' = Tail(redisQ)
  /\ LET e == Head(redisQ)
     IN IF ok
        THEN /\ allUsers' = RedisApplySet(e)
             /\ metadataCache' = metadataCache \ {e.k.userId}
             /\ Respond(e, <<"success", TRUE>>)
             /\ UNCHANGED <<redis, lastOp>>
        ELSE /\ Failed(e)
             /\ UNCHANGED <<allUsers, metadataCache>>
  /\ UNCHANGED <<failures, ws, clients, cl, clientsByChannel, helloTasks, buckets, ad>>


\* ------------------------------------------------------------- client adapter: receiving
\* WebSocketAdapter.set with a value its schema refuses: validate throws, nothing is sent
ClientSetRejected(c, msg) ==
  /\ msg.action = "set"
  /\ ~Sendable(msg)
  /\ ad[c].peer = "adapter"
  /\ ad[c].connected
  /\ ctr.id < MaxReqs
  /\ ctr' = [ctr EXCEPT !.id = @ + 1]
  /\ req' = [req EXCEPT ![ctr.id + 1] = [conn |-> c, action |-> "set", st |-> "rejected"]]
  /\ UNCHANGED <<failures, ws, clients, cl, clientsByChannel, helloTasks, sent, redisQ, redis,
                 allUsers, buckets, metadataCache, ad, dispatched, lastOp>>

\* WebSocketAdapter.decryptSessionData: the unsealed session key and the IV it keeps
decryptSessionData(sealed) == [encryptionKey |-> sealed.sk, iv |-> sealed.wiv]

\* the adapter's fields after handleMessage of one frame record of the server's log
handleMessage(a, token, rec) ==
  LET f == rec.frame
      readable == IF a.encKey # NoKey THEN Decryptable(f, a.encKey) ELSE JsonParsable(f)
  IN IF ~rec.delivered \/ ~readable THEN a
     ELSE IF f.body.type = "encryption" /\ f.body.sealed.tok = token
          THEN [a EXCEPT !.encKey = decryptSessionData(f.body.sealed).encryptionKey,
                         !.encIv = decryptSessionData(f.body.sealed).iv,
                         !.authenticated = TRUE]
          ELSE a

\* handleMessage's inner catch: the frame is an encryption frame the adapter reads, and
\* the session key in it does not unseal under the adapter's token
UnsealFails(a, token, rec) ==
  LET f == rec.frame
  IN /\ rec.delivered
     /\ IF a.encKey # NoKey THEN Decryptable(f, a.encKey) ELSE JsonParsable(f)
     /\ f.body.type = "encryption"
     /\ f.body.sealed.tok # token

\* ws.onmessage of the adapter on the next frame the server sent
ClientReceive(c) ==
  /\ ad[c].peer = "adapter"
  /\ ad[c].connected
  /\ ad[c].pos < Len(sent[c])
  /\ ad' = [ad EXCEPT ![c] =
              handleMessage([ad[c] EXCEPT !.pos = @ + 1], ad[c].token, sent[c][ad[c].pos + 1])]
  /\ failures' = IF UnsealFails(ad[c], ad[c].token, sent[c][ad[c].pos + 1])
                 THEN Failure(c, "unseal failed") ELSE failures
  /\ UNCHANGED <<ws, clients, cl, clientsByChannel, helloTasks, sent, redisQ, redis,
                 allUsers, buckets, metadataCache, ctr, req, dispatched, lastOp>>

\* ws.onclose of the adapter, once the frames delivered before the close are handled
AdapterOnClose(c) ==
  /\ ad[c].peer = "adapter"
  /\ ad[c].connected
  /\ ws[c] = "closed"
  /\ ad[c].pos = Len(sent[c])
  /\ ad' = [ad EXCEPT ![c].connected = FALSE, ![c].authenticated = FALSE,
                      ![c].encKey = NoKey, ![c].encIv = 0]
  /\ UNCHANGED <<failures, ws, clients, cl, clientsByChannel, helloTasks, sent, redisQ, redis,
                 allUsers, buckets, metadataCache, ctr, req, dispatched, lastOp>>

\* ------------------------------------------------------------- specification
\* A frame on the wire is handled by the adapter before the next server step: receipt
\* changes only the adapter's fields and commutes with every server step.
PeerIdle ==
  \A c \in Conns :
    ad[c].peer = "adapter" /\ ad[c].connected => ad[c].pos = Len(sent[c]) /\ ws[c] # "closed"

\* a step of a specification that follows neither the adapter object's life cycle nor
\* the history of named writes
Untracked == UNCHANGED <<adapter, written, gw>>

\* an IV drawn independently of the session IV
WrapIVs == RandomIVs \ {1}

\* Connection life cycle and handshake: one peer, an adapter or a peer that violates the
\* protocol, with any token; failures of validateToken and of the bucket manager's
\* commands; a small set of requests
HandshakeRequests ==
  {r \in Requests : r.collection = <<"a">> /\ r.action \in {"get", "set"} /\ r.value # 2}

HandshakeFrames(c) == PeerFrames(c, HandshakeRequests, TRUE)

Next ==
  \/ Untracked /\ \E c \in Conns : ClientReceive(c)
  \/ Untracked /\ \E c \in Conns : AdapterOnClose(c)
  \/ PeerIdle /\ Untracked /\ \E t \in Tokens : Open(1, t, "adapter")
  \/ PeerIdle /\ Untracked /\ Open(1, "", "raw")
  \/ PeerIdle /\ Untracked /\ \E c \in Conns : CloseHandler(c)
  \/ PeerIdle /\ Untracked /\ \E c \in Conns : \E f \in HandshakeFrames(c) : OnMessageUnauthenticated(c, f)
  \/ PeerIdle /\ Untracked /\ \E c \in Conns : \E f \in HandshakeFrames(c) : OnMessageInvalid(c, f)
  \/ PeerIdle /\ Untracked /\ \E c \in Conns : \E f \in HandshakeFrames(c) : HandleStorage(c, f)
  \/ PeerIdle /\ Untracked /\ \E task \in helloTasks : HelloValidateThrows(task)
  \/ PeerIdle /\ Untracked /\ \E task \in helloTasks : HelloRejected(task)
  \/ PeerIdle /\ Untracked /\ \E task \in helloTasks, wiv \in WrapIVs : HelloAccepted(task, wiv)
  \/ PeerIdle /\ Untracked /\ \E ok \in BOOLEAN : ReplyCreateSet(ok)
  \/ PeerIdle /\ Untracked /\ \E ok \in BOOLEAN : ReplyCreateSadd(ok)
  \/ PeerIdle /\ Untracked /\ \E ok \in BOOLEAN : ReplyTouch(ok)
  \/ PeerIdle /\ Untracked /\ ReplyGet(TRUE)
  \/ PeerIdle /\ Untracked /\ ReplySet(TRUE)

Spec == Init /\ [][Next]_vars

\* Request handling: one adapter holding an accepted token, every request, failures of
\* the handlers' commands
RpcFrames(c) == PeerFrames(c, Requests, FALSE)

NextRpc ==
  \/ Untracked /\ \E c \in Conns : ClientReceive(c)
  \/ Untracked /\ \E c \in Conns : AdapterOnClose(c)
  \/ PeerIdle /\ Untracked /\ \E t \in AcceptedTokens : Open(1, t, "adapter")
  \/ PeerIdle /\ Untracked /\ \E c \in Conns : CloseHandler(c)
  \/ PeerIdle /\ Untracked /\ \E c \in Conns : \E f \in RpcFrames(c) : OnMessageUnauthenticated(c, f)
  \/ PeerIdle /\ Untracked /\ \E c \in Conns : \E f \in RpcFrames(c) : HandleStorage(c, f)
  \/ PeerIdle /\ Untracked /\ \E c \in Conns : \E f \in RpcFrames(c) : handleAdminListUsers(c, f)
  \/ PeerIdle /\ Untracked /\ \E c \in Conns : \E f \in RpcFrames(c) : handleAdminUserInfo(c, f)
  \/ PeerIdle /\ Untracked /\ \E c \in Conns : \E f \in RpcFrames(c) : handleAdminDeleteUser(c, f)
  \/ PeerIdle /\ Untracked /\ \E task \in helloTasks, wiv \in WrapIVs : HelloAccepted(task, wiv)
  \/ PeerIdle /\ Untracked /\ ReplyCreateSet(TRUE)
  \/ PeerIdle /\ Untracked /\ ReplyCreateSadd(TRUE)
  \/ PeerIdle /\ Untracked /\ ReplyTouch(TRUE)
  \/ PeerIdle /\ Untracked /\ \E ok \in BOOLEAN : ReplyGet(ok)
  \/ PeerIdle /\ Untracked /\ \E ok \in BOOLEAN : ReplySet(ok)
  \/ PeerIdle /\ Untracked /\ \E ok \in BOOLEAN : ReplyDelete(ok)
  \/ PeerIdle /\ Untracked /\ \E ok \in BOOLEAN : ReplyScan(ok)
  \/ PeerIdle /\ Untracked /\ \E ok \in BOOLEAN : ReplyClearKeys(ok)
  \/ PeerIdle /\ Untracked /\ \E ok \in BOOLEAN : ReplyClearDel(ok)
  \/ PeerIdle /\ Untracked /\ \E ok \in BOOLEAN : ReplyDubKeys(ok)
  \/ PeerIdle /\ Untracked /\ \E ok \in BOOLEAN : ReplyDubDel(ok)
  \/ PeerIdle /\ Untracked /\ \E ok \in BOOLEAN : ReplyDubDelMeta(ok)
  \/ PeerIdle /\ Untracked /\ \E ok \in BOOLEAN : ReplyDubSrem(ok)

SpecRpc == Init /\ [][NextRpc]_vars

\* Channels and tenants: adapters holding accepted tokens on every connection, the
\* mutations of one collection and the listing of it, failures of the handlers' commands
ChannelRequests ==
  {r \in Requests : /\ r.action \in {"set", "delete", "clear", "keys"}
                    /\ r.collection # <<"b">>
                    /\ r.value # 2}

ChannelFrames(c) == PeerFrames(c, ChannelRequests, FALSE)

NextChannel ==
  \/ Untracked /\ \E c \in Conns : ClientReceive(c)
  \/ Untracked /\ \E c \in Conns : AdapterOnClose(c)
  \/ PeerIdle /\ Untracked /\ \E c \in Conns, t \in AcceptedTokens : Open(c, t, "adapter")
  \/ PeerIdle /\ Untracked /\ \E c \in Conns : CloseHandler(c)
  \/ PeerIdle /\ Untracked /\ \E c \in Conns : \E f \in ChannelFrames(c) : OnMessageUnauthenticated(c, f)
  \/ PeerIdle /\ Untracked /\ \E c \in Conns : \E f \in ChannelFrames(c) : HandleStorage(c, f)
  \/ PeerIdle /\ Untracked /\ \E c \in Conns, m \in ChannelRequests : ClientSetRejected(c, m)
  \/ PeerIdle /\ Untracked /\ \E task \in helloTasks, wiv \in WrapIVs : HelloAccepted(task, wiv)
  \/ PeerIdle /\ Untracked /\ ReplyCreateSet(TRUE)
  \/ PeerIdle /\ Untracked /\ ReplyCreateSadd(TRUE)
  \/ PeerIdle /\ Untracked /\ ReplyTouch(TRUE)
  \/ PeerIdle /\ Untracked /\ \E ok \in BOOLEAN : ReplySet(ok)
  \/ PeerIdle /\ Untracked /\ \E ok \in BOOLEAN : ReplyDelete(ok)
  \/ PeerIdle /\ Untracked /\ \E ok \in BOOLEAN : ReplyScan(ok)
  \/ PeerIdle /\ Untracked /\ \E ok \in BOOLEAN : ReplyClearKeys(ok)
  \/ PeerIdle /\ Untracked /\ \E ok \in BOOLEAN : ReplyClearDel(ok)

SpecChannel == Init /\ [][NextChannel]_vars

\* Named storage: one adapter holding an accepted token, on a server that was started over
\* a store left by an earlier run; collections and keys are opaque strings, some of which
\* contain the separator
NamedCollections == {<<"a">>, <<"a", ":", "b">>}
NamedKeys == {<<"k">>, <<"b", ":", "k">>}
SeedTenants == {formatUserId(t) : t \in AcceptedTokens}

\* data keys an earlier run may have left for tenant userId
SeedKeys(userId) ==
  {formatKey(formatUserDataPrefix(userId), <<"a">>, <<"k">>),
   formatKey(formatUserDataPrefix(userId), <<"a", ":", "b">>, <<"k">>)}

\* the state after start(): initialize() has loaded every tenant of all_users into the
\* metadata cache, and no adapter has been created yet
InitStore ==
  /\ \E known \in SUBSET SeedTenants :
       \E data \in SUBSET UNION {SeedKeys(u) : u \in known} :
         /\ redis = [x \in data \cup {formatUserMetadataKey(u) : u \in known} |->
                       IF x \in data THEN serialize(1) ELSE metadataJson]
         /\ allUsers = known
         /\ metadataCache = known
  /\ ws = [c \in Conns |-> "idle"]
  /\ clients = {}
  /\ cl = [c \in Conns |-> NewClient]
  /\ clientsByChannel = <<>>
  /\ helloTasks = {}
  /\ sent = [c \in Conns |-> <<>>]
  /\ redisQ = <<>>
  /\ buckets = <<>>
  /\ ad = [c \in Conns |-> NewAdapter]
  /\ ctr = [id |-> 0, raw |-> 0, key |-> 0, inst |-> 0, hello |-> 0, fail |-> 0]
  /\ req = [i \in ReqIds |-> NoReq]
  /\ dispatched = <<>>
  /\ lastOp = NoOp
  /\ failures = {}
  /\ adapter = NoAdapter
  /\ written = <<>>
  /\ gw = NewGateway

NamedRequests ==
  {[EmptyMsg EXCEPT !.action = "set", !.collection = col, !.key = k, !.value = 2] :
      col \in NamedCollections, k \in NamedKeys}
    \cup {[EmptyMsg EXCEPT !.action = "delete", !.collection = col, !.key = k] :
            col \in NamedCollections, k \in NamedKeys}
    \cup {[EmptyMsg EXCEPT !.action = "clear", !.collection = col] :
            col \in NamedCollections \cup {NoString}}
    \cup {[EmptyMsg EXCEPT !.action = "admin_delete_user", !.userId = u] : u \in SeedTenants}

NamedFrames(c) == PeerFrames(c, NamedRequests, FALSE)

\* the names (prefix, collection, key) a clear of `collection` is meant to empty
NamesOf(prefix, collection) ==
  {<<prefix, col, k>> : col \in (IF collection = NoString THEN NamedCollections
                                                        ELSE {collection}),
                        k \in NamedKeys}

Mutated(names, entry) ==
  [x \in (DOMAIN written) \cup names |-> IF x \in names THEN entry ELSE written[x]]

\* history: the named writes after the reply to the command at the head of the pipeline
WrittenAfter ==
  IF redisQ = <<>> THEN written
  ELSE LET e == Head(redisQ)
           name == <<e.owner, e.k.collection, e.k.key>>
           cleared == [kind |-> "clear", value |-> NoValue, success |-> TRUE]
           last == e.k.pc \in {"del", "dub_del"} \/ StoreKeys(redis, e.rkey) = {}
       IN CASE e.k.kind = "set" ->
                 Mutated({name}, [kind |-> "set", value |-> e.k.value, success |-> TRUE])
            [] e.k.kind = "delete" ->
                 Mutated({name}, [kind |-> "delete", value |-> NoValue,
                                  success |-> Stored(redis, e.rkey)])
            [] e.k.kind = "clear" /\ last -> Mutated(NamesOf(e.owner, e.k.collection), cleared)
            [] e.k.kind = "admin_delete_user" /\ e.owner # NoString /\ last ->
                 Mutated(NamesOf(e.owner, NoString), cleared)
            [] OTHER -> written

Tracked == UNCHANGED <<adapter, gw>> /\ written' = WrittenAfter

NextStore ==
  \/ Untracked /\ \E c \in Conns : ClientReceive(c)
  \/ PeerIdle /\ Untracked /\ \E t \in AcceptedTokens : Open(1, t, "adapter")
  \/ PeerIdle /\ Untracked /\ \E c \in Conns : \E f \in NamedFrames(c) : OnMessageUnauthenticated(c, f)
  \/ PeerIdle /\ Untracked /\ \E c \in Conns : \E f \in NamedFrames(c) : HandleStorage(c, f)
  \/ PeerIdle /\ Untracked /\ \E c \in Conns : \E f \in NamedFrames(c) : handleAdminDeleteUser(c, f)
  \/ PeerIdle /\ Untracked /\ \E task \in helloTasks, wiv \in WrapIVs : HelloAccepted(task, wiv)
  \/ PeerIdle /\ Untracked /\ ReplyCreateSet(TRUE)
  \/ PeerIdle /\ Untracked /\ ReplyCreateSadd(TRUE)
  \/ PeerIdle /\ Untracked /\ ReplyTouch(TRUE)
  \/ PeerIdle /\ Tracked /\ ReplySet(TRUE)
  \/ PeerIdle /\ Tracked /\ ReplyDelete(TRUE)
  \/ PeerIdle /\ Tracked /\ ReplyClearKeys(TRUE)
  \/ PeerIdle /\ Tracked /\ ReplyClearDel(TRUE)
  \/ PeerIdle /\ Tracked /\ ReplyDubKeys(TRUE)
  \/ PeerIdle /\ Tracked /\ ReplyDubDel(TRUE)
  \/ PeerIdle /\ Untracked /\ ReplyDubDelMeta(TRUE)
  \/ PeerIdle /\ Untracked /\ ReplyDubSrem(TRUE)

SpecStore == InitStore /\ [][NextStore]_vars

\* Bucket manager under concurrency: two connections of one tenant, whose handshakes
\* (ensureUserBucket) run while the other deletes the tenant or writes to it
BucketFrames(c) ==
  PeerFrames(c, {[EmptyMsg EXCEPT !.action = "admin_delete_user",
                                  !.userId = formatUserId("t1")],
                 [EmptyMsg EXCEPT !.action = "set", !.collection = <<"a">>,
                                  !.key = <<"k">>, !.value = 1]}, FALSE)

NextBucket ==
  \/ Untracked /\ \E c \in Conns : ClientReceive(c)
  \/ PeerIdle /\ Untracked /\ \E c \in Conns : Open(c, "t1", "adapter")
  \/ PeerIdle /\ Untracked /\ \E c \in Conns : \E f \in BucketFrames(c) : OnMessageUnauthenticated(c, f)
  \/ PeerIdle /\ Untracked /\ \E c \in Conns : \E f \in BucketFrames(c) : HandleStorage(c, f)
  \/ PeerIdle /\ Untracked /\ \E c \in Conns : \E f \in BucketFrames(c) : handleAdminDeleteUser(c, f)
  \/ PeerIdle /\ Untracked /\ \E task \in helloTasks, wiv \in WrapIVs : HelloAccepted(task, wiv)
  \/ PeerIdle /\ Untracked /\ ReplyCreateSet(TRUE)
  \/ PeerIdle /\ Untracked /\ ReplyCreateSadd(TRUE)
  \/ PeerIdle /\ Untracked /\ ReplyTouch(TRUE)
  \/ PeerIdle /\ Untracked /\ ReplySet(TRUE)
  \/ PeerIdle /\ Untracked /\ ReplyDubKeys(TRUE)
  \/ PeerIdle /\ Untracked /\ ReplyDubDel(TRUE)
  \/ PeerIdle /\ Untracked /\ ReplyDubDelMeta(TRUE)
  \/ PeerIdle /\ Untracked /\ ReplyDubSrem(TRUE)

SpecBucket == Init /\ [][NextBucket]_vars

\* Concurrent writers: two connections of one channel set the same key to either value
OrderFrames(c) ==
  PeerFrames(c, {[EmptyMsg EXCEPT !.action = "set", !.collection = <<"a">>,
                                  !.key = <<"k">>, !.value = v] : v \in Values}, FALSE)

NextOrder ==
  \/ Untracked /\ \E c \in Conns : ClientReceive(c)
  \/ PeerIdle /\ Untracked /\ \E c \in Conns : Open(c, "t1", "adapter")
  \/ PeerIdle /\ Untracked /\ \E c \in Conns : \E f \in OrderFrames(c) : OnMessageUnauthenticated(c, f)
  \/ PeerIdle /\ Untracked /\ \E c \in Conns : \E f \in OrderFrames(c) : HandleStorage(c, f)
  \/ PeerIdle /\ Untracked /\ \E task \in helloTasks, wiv \in WrapIVs : HelloAccepted(task, wiv)
  \/ PeerIdle /\ Untracked /\ ReplyCreateSet(TRUE)
  \/ PeerIdle /\ Untracked /\ ReplyCreateSadd(TRUE)
  \/ PeerIdle /\ Untracked /\ ReplyTouch(TRUE)
  \/ PeerIdle /\ Untracked /\ ReplySet(TRUE)

SpecOrder == Init /\ [][NextOrder]_vars

\* ------------------------------------------------------------- server restart
\* a start() that finds none of the data the stopped server had written
ServerRestartOnEmptyStore ==
  /\ ws' = [c \in Conns |-> IF ws[c] \in {"open", "closing"} THEN "closed" ELSE ws[c]]
  /\ clients' = {}
  /\ cl' = [c \in Conns |-> NewClient]
  /\ clientsByChannel' = <<>>
  /\ helloTasks' = {}
  /\ redisQ' = <<>>
  /\ buckets' = <<>>
  /\ redis' = <<>>
  /\ allUsers' = {}
  /\ metadataCache' = {}
  /\ UNCHANGED <<sent, ad, ctr, req, dispatched, lastOp, failures, adapter, written, gw>>

\* stop() followed by start() of a new WebSocketStorageServer on the same backing store:
\* server.stop(true) closes every connection, userBucketManager.close() drops the adapters,
\* the metadata cache and the Redis client with its unanswered commands; the new server
\* has no Client, and initialize() loads the metadata of every member of all_users
ServerRestart ==
  /\ ws' = [c \in Conns |-> IF ws[c] \in {"open", "closing"} THEN "closed" ELSE ws[c]]
  /\ clients' = {}
  /\ cl' = [c \in Conns |-> NewClient]
  /\ clientsByChannel' = <<>>
  /\ helloTasks' = {}
  /\ redisQ' = <<>>
  /\ buckets' = <<>>
  /\ metadataCache' = {u \in allUsers : Stored(redis, formatUserMetadataKey(u))}
  /\ UNCHANGED <<redis, allUsers, sent, ad, ctr, req, dispatched, lastOp, failures, adapter,
                 written, gw>>

\* Restart: adapters holding accepted tokens, one before the restart and one after it,
\* that set and get one key
RestartFrames(c) ==
  PeerFrames(c, {r \in Requests : /\ r.action \in {"get", "set"}
                                  /\ r.collection = <<"a">>
                                  /\ r.value \in {NoValue, 1, 2}}, FALSE)

NextRestart ==
  \/ Untracked /\ \E c \in Conns : ClientReceive(c)
  \/ Untracked /\ \E c \in Conns : AdapterOnClose(c)
  \/ PeerIdle /\ Untracked /\ \E c \in Conns, t \in AcceptedTokens : Open(c, t, "adapter")
  \/ PeerIdle /\ Untracked /\ \E c \in Conns : \E f \in RestartFrames(c) : OnMessageUnauthenticated(c, f)
  \/ PeerIdle /\ Untracked /\ \E c \in Conns : \E f \in RestartFrames(c) : HandleStorage(c, f)
  \/ PeerIdle /\ Untracked /\ \E task \in helloTasks, wiv \in WrapIVs : HelloAccepted(task, wiv)
  \/ PeerIdle /\ Untracked /\ ReplyCreateSet(TRUE)
  \/ PeerIdle /\ Untracked /\ ReplyCreateSadd(TRUE)
  \/ PeerIdle /\ Untracked /\ ReplyTouch(TRUE)
  \/ PeerIdle /\ Untracked /\ ReplyGet(TRUE)
  \/ PeerIdle /\ Tracked /\ ReplySet(TRUE)
  \/ PeerIdle /\ ServerRestart

SpecRestart == Init /\ [][NextRestart]_vars

\* ------------------------------------------------------------- client adapter: life cycle
\* WebSocketAdapter.scheduleReconnect
scheduleReconnect(a) ==
  IF a.reconnectTimer THEN a
  ELSE IF MaxReconnectAttempts > 0 /\ a.reconnectAttempts >= MaxReconnectAttempts THEN a
  ELSE [a EXCEPT !.reconnectTimer = TRUE, !.armed = @ + 1]

\* WebSocketAdapter.connect: a new transport, or the catch block when the runtime gives
\* no further socket
connect(a) ==
  IF a.ws # 0 /\ ad[a.ws].connected THEN a
  ELSE IF a.created < NumConns
       THEN [a EXCEPT !.closing = FALSE, !.ws = a.created + 1, !.created = a.created + 1]
       ELSE scheduleReconnect([a EXCEPT !.closing = FALSE])

\* what close() finds the adapter doing
Phase(a) ==
  IF a.reconnectTimer THEN "timer"
  ELSE IF a.ws = 0 THEN "none"
  ELSE IF ws[a.ws] = "idle" THEN "connecting"
  ELSE IF ad[a.ws].connected /\ ad[a.ws].authenticated THEN "connected"
  ELSE IF ad[a.ws].connected THEN "handshake"
  ELSE "disconnected"

\* a close() that leaves the reconnect timer armed
closeLeavesTimer(a) ==
  LET marked == [a EXCEPT !.closing = TRUE, !.closeCalled = TRUE,
                          !.createdAtClose = a.created, !.closedIn = Phase(a)]
  IN IF a.ws # 0 THEN [marked EXCEPT !.ws = 0, !.pendingRequests = {}] ELSE marked

\* WebSocketAdapter.close: the adapter's fields after it
close(a) ==
  LET marked == [a EXCEPT !.closing = TRUE, !.reconnectTimer = FALSE, !.armed = 0,
                          !.closeCalled = TRUE, !.createdAtClose = a.created,
                          !.closedIn = Phase(a)]
  IN IF a.ws # 0 THEN [marked EXCEPT !.ws = 0, !.pendingRequests = {}] ELSE marked

\* the constructor: the configuration, then connect()
AdapterConstruct(token) ==
  /\ adapter.token = ""
  /\ adapter' = connect([adapter EXCEPT !.token = token])
  /\ UNCHANGED <<ws, clients, cl, clientsByChannel, helloTasks, sent, redisQ, redis, allUsers,
                 buckets, metadataCache, ad, ctr, req, dispatched, lastOp, failures, written, gw>>

\* the transport of this.ws opens: websocket.open on the server, ws.onopen on the adapter
TransportOpens ==
  /\ adapter.ws # 0
  /\ Open(adapter.ws, adapter.token, "adapter")
  /\ adapter' = [adapter EXCEPT !.reconnectAttempts = 0]
  /\ UNCHANGED <<written, gw>>

\* the transport of this.ws fails to open: ws.onclose without ws.onopen
TransportFails ==
  /\ adapter.ws # 0
  /\ ws[adapter.ws] = "idle"
  /\ ws' = [ws EXCEPT ![adapter.ws] = "closed"]
  /\ adapter' = IF adapter.closing THEN adapter ELSE scheduleReconnect(adapter)
  /\ UNCHANGED <<clients, cl, clientsByChannel, helloTasks, sent, redisQ, redis, allUsers,
                 buckets, metadataCache, ad, ctr, req, dispatched, lastOp, failures, written, gw>>

\* ws.onclose of an opened transport
LifeOnClose(c) ==
  /\ AdapterOnClose(c)
  /\ adapter' = IF adapter.closing THEN adapter ELSE scheduleReconnect(adapter)
  /\ UNCHANGED <<written, gw>>

\* the callback of the reconnect timer
ReconnectTimerFires ==
  /\ adapter.reconnectTimer
  /\ adapter' = connect([adapter EXCEPT !.reconnectTimer = FALSE, !.armed = @ - 1,
                                        !.reconnectAttempts = @ + 1, !.attempts = @ + 1])
  /\ UNCHANGED <<ws, clients, cl, clientsByChannel, helloTasks, sent, redisQ, redis, allUsers,
                 buckets, metadataCache, ad, ctr, req, dispatched, lastOp, failures, written, gw>>

\* close() called by the owner of the adapter. Events of the closed transport that arrive
\* later change only authenticated and encryptionData, which nothing reads while this.ws
\* is null
LifeClose ==
  /\ adapter.token # ""
  /\ ~adapter.closeCalled
  /\ adapter' = close(adapter)
  /\ IF adapter.ws # 0
     THEN /\ ws' = [ws EXCEPT ![adapter.ws] =
                      CASE @ = "open" -> "closing" [] @ = "idle" -> "closed" [] OTHER -> @]
          /\ ad' = [ad EXCEPT ![adapter.ws].connected = FALSE,
                              ![adapter.ws].authenticated = FALSE]
     ELSE UNCHANGED <<ws, ad>>
  /\ UNCHANGED <<clients, cl, clientsByChannel, helloTasks, sent, redisQ, redis, allUsers,
                 buckets, metadataCache, ctr, req, dispatched, lastOp, failures, written, gw>>

\* what the caller of op gets when the promise of sendRequest settles: has, size and keys
\* catch the rejection and return false, 0 and []
Outcome(op, rejected) ==
  IF ~rejected THEN "resolved"
  ELSE IF op \in {"has", "size", "keys"} THEN "resolved_default"
  ELSE "rejected"

\* a settling that leaves the request's timer armed
SettleKeepsTimer(a, id, rejected) ==
  [a EXCEPT !.pendingRequests = @ \ {id},
            !.calls[id] = [op |-> @.op, st |-> Outcome(@.op, rejected), failed |-> rejected]]

\* the pending request id is settled: its timeout is cleared and the caller resumes
Settle(a, id, rejected) ==
  [a EXCEPT !.pendingRequests = @ \ {id}, !.timeouts = @ \ {id},
            !.calls[id] = [op |-> @.op, st |-> Outcome(@.op, rejected), failed |-> rejected]]

LifeRequests ==
  {r \in Requests : /\ r.action \in StorageActions
                    /\ r.collection = <<"a">>
                    /\ r.value \in {NoValue, 1}}

LifeFrames(c) == PeerFrames(c, LifeRequests, FALSE)

\* an API call (has sends a get request) made while the adapter is connected and
\* authenticated: sendRequest registers the pending request with its timeout and sends
\* the frame, which the server dispatches
LifeRequest(c, op, f) ==
  /\ adapter.ws = c
  /\ f \in RequestFrames(c, LifeRequests)
  /\ f.body.action = (IF op = "has" THEN "get" ELSE op)
  /\ HandleStorage(c, f)
  /\ adapter' = [adapter EXCEPT !.pendingRequests = @ \cup {f.body.id},
                                !.timeouts = @ \cup {f.body.id},
                                !.calls[f.body.id] = [op |-> op, st |-> "pending",
                                                      failed |-> FALSE]]
  /\ UNCHANGED <<written, gw>>

\* the timeout of sendRequest fires
LifeTimeout(id) ==
  /\ id \in adapter.timeouts
  /\ adapter' = Settle(adapter, id, TRUE)
  /\ UNCHANGED <<ws, clients, cl, clientsByChannel, helloTasks, sent, redisQ, redis, allUsers,
                 buckets, metadataCache, ad, ctr, req, dispatched, lastOp, failures, written, gw>>

\* ws.onmessage and handleMessage on the adapter object: a completed handshake, or a
\* response that settles a pending request
LifeReceive(c) ==
  LET rec == sent[c][ad[c].pos + 1]
      f == rec.frame
      readable == IF ad[c].encKey # NoKey THEN Decryptable(f, ad[c].encKey)
                                          ELSE JsonParsable(f)
      a == adapter
  IN /\ ClientReceive(c)
     /\ adapter' =
          IF ~rec.delivered \/ ~readable THEN a
          ELSE IF f.body.type = "encryption"
               THEN IF f.body.sealed.tok = a.token THEN [a EXCEPT !.attempts = 0] ELSE a
               ELSE IF f.body.type = "" /\ f.body.id \in a.pendingRequests
               THEN Settle(a, f.body.id, f.body.hasError)
               ELSE a
     /\ UNCHANGED <<written, gw>>

NextLife ==
  \/ \E c \in Conns : LifeReceive(c)
  \/ \E c \in Conns : LifeOnClose(c)
  \/ \E t \in {"t1", "bad"} : AdapterConstruct(t)
  \/ TransportOpens
  \/ TransportFails
  \/ ReconnectTimerFires
  \/ LifeClose
  \/ \E id \in ReqIds : LifeTimeout(id)
  \/ PeerIdle /\ \E c \in Conns, op \in {"get", "has", "set", "delete", "clear", "size", "keys"} :
                  \E f \in LifeFrames(c) : LifeRequest(c, op, f)
  \/ PeerIdle /\ Untracked /\ \E c \in Conns : CloseHandler(c)
  \/ PeerIdle /\ Untracked /\ \E c \in Conns : \E f \in LifeFrames(c) : OnMessageUnauthenticated(c, f)
  \/ PeerIdle /\ Untracked /\ \E task \in helloTasks : HelloRejected(task)
  \/ PeerIdle /\ Untracked /\ \E task \in helloTasks, wiv \in WrapIVs : HelloAccepted(task, wiv)
  \/ PeerIdle /\ Untracked /\ ReplyCreateSet(TRUE)
  \/ PeerIdle /\ Untracked /\ ReplyCreateSadd(TRUE)
  \/ PeerIdle /\ Untracked /\ ReplyTouch(TRUE)
  \/ PeerIdle /\ Untracked /\ \E ok \in BOOLEAN : ReplyGet(ok)
  \/ PeerIdle /\ Untracked /\ \E ok \in BOOLEAN : ReplySet(ok)
  \/ PeerIdle /\ Untracked /\ \E ok \in BOOLEAN : ReplyDelete(ok)
  \/ PeerIdle /\ Untracked /\ \E ok \in BOOLEAN : ReplyScan(ok)
  \/ PeerIdle /\ Untracked /\ \E ok \in BOOLEAN : ReplyClearKeys(ok)
  \/ PeerIdle /\ Untracked /\ \E ok \in BOOLEAN : ReplyClearDel(ok)

SpecLife == Init /\ [][NextLife]_vars

\* ------------------------------------------------------------- gateway client
\* a step of the gateway client: nothing of the storage server or its adapters changes
GwStep(g) ==
  /\ gw' = g
  /\ UNCHANGED <<ws, clients, cl, clientsByChannel, helloTasks, sent, redisQ, redis, allUsers,
                 buckets, metadataCache, ad, ctr, req, dispatched, lastOp, failures, adapter,
                 written>>

\* DiscordWebSocket.send: the frame goes out only if this.ws is open. History: an opcode
\* sent inside its retry window
gatewaySend(g, op) ==
  IF g.ws # 0 /\ g.sock[g.ws].st = "open" /\ op \in DOMAIN g.limited
  THEN [g EXCEPT !.early = IF g.limited[op] > 0 THEN @ \cup {op} ELSE @]
  ELSE g

\* DiscordWebSocket.stopHeartbeat: clears the timers the two fields refer to
stopHeartbeat(g) ==
  [g EXCEPT !.heartbeatTimer = FALSE, !.heartbeatAckTimeout = FALSE,
            !.intervals = IF g.heartbeatTimer THEN @ - 1 ELSE @,
            !.ackTimers = IF g.heartbeatAckTimeout THEN @ - 1 ELSE @]

\* a startHeartbeat that does not stop the running timers first
startHeartbeatKeepsOld(g) ==
  [g EXCEPT !.heartbeatAckReceived = FALSE, !.heartbeatTimer = TRUE, !.intervals = @ + 1]

\* DiscordWebSocket.startHeartbeat
startHeartbeat(g) ==
  [stopHeartbeat(g) EXCEPT !.heartbeatAckReceived = FALSE, !.heartbeatTimer = TRUE,
                           !.intervals = @ + 1]

\* this.ws?.close(code): the socket starts closing and its close event will carry the code
\* (1005 when none was given, 1006 when the socket had not opened)
closeSocket(g, code, why) ==
  IF g.ws # 0 /\ g.sock[g.ws].st \in {"connecting", "open"}
  THEN [g EXCEPT !.sock[g.ws] =
          [@ EXCEPT !.st = "closing",
                    !.code = IF g.sock[g.ws].st = "connecting" THEN 1006 ELSE code,
                    !.why = why, !.listening = g.listeners]]
  ELSE g

\* DiscordWebSocket.close
gatewayClose(g, why) ==
  [stopHeartbeat(closeSocket(g, 1005, why)) EXCEPT
     !.limited = [o \in DOMAIN g.limited |-> 0],
     !.ws = 0, !.connected = FALSE, !.sessionId = 0, !.resumeGatewayUrl = FALSE,
     !.sequence = 0, !.listeners = FALSE, !.readyPromise = FALSE,
     !.reconnectAttempts = 0, !.isResuming = FALSE]

\* DiscordWebSocket.connect
gatewayConnect(g) ==
  IF g.readyPromise THEN g
  ELSE [g EXCEPT !.readyPromise = TRUE,
                 !.isResuming = g.store # NoSession,
                 !.created = @ + 1,
                 !.ws = g.created + 1,
                 !.sock[g.created + 1] =
                    [NoSocket EXCEPT !.st = "connecting",
                                     !.url = IF g.resumeGatewayUrl THEN "resume"
                                                                   ELSE "default"]]

\* a handleClose whose delay grows linearly
handleCloseLinear(g, s, code) ==
  LET h == [stopHeartbeat(g) EXCEPT
              !.connected = FALSE,
              !.sock[s] = [@ EXCEPT !.st = "closed", !.code = code,
                                    !.heard = IF g.listeners THEN @ + 1 ELSE @]]
      delay == 200 * 2 * (g.reconnectAttempts + 1)
  IN IF code = 4000 /\ g.reconnectAttempts < maxReconnectAttempts
     THEN [h EXCEPT !.reconnectAttempts = @ + 1,
                    !.timers = @ + 1,
                    !.lastDelay = IF delay < 5000 THEN delay ELSE 5000,
                    !.sock[s].scheduled = "yes"]
     ELSE [h EXCEPT !.readyPromise = FALSE, !.sock[s].scheduled = "no"]

\* DiscordWebSocket.handleClose, run by the close event of socket s
handleClose(g, s, code) ==
  LET h == [stopHeartbeat(g) EXCEPT
              !.connected = FALSE,
              !.sock[s] = [@ EXCEPT !.st = "closed", !.code = code,
                                    !.heard = IF g.listeners THEN @ + 1 ELSE @]]
      delay == 200 * 2^(g.reconnectAttempts + 1)
  IN IF code = 4000 /\ g.reconnectAttempts < maxReconnectAttempts
     THEN [h EXCEPT !.reconnectAttempts = @ + 1,
                    !.timers = @ + 1,
                    !.lastDelay = IF delay < 5000 THEN delay ELSE 5000,
                    !.sock[s].scheduled = "yes"]
     ELSE [h EXCEPT !.readyPromise = FALSE, !.sock[s].scheduled = "no"]

\* the payloads the gateway can send now: HELLO, HEARTBEAT, RECONNECT, INVALID_SESSION,
\* HEARTBEAT_ACK, and the dispatches READY, RESUMED, TYPING_START and RATE_LIMITED (for
\* opcode 3 or 8), each dispatch with the next sequence number
Payloads(g) ==
  LET next == IF g.sequence < MaxSeq THEN g.sequence + 1 ELSE MaxSeq
      plain == [op |-> 0, t |-> "", s |-> 0, d |-> 0]
  IN {[plain EXCEPT !.op = o] : o \in {1, 7, 10, 11}}
       \cup {[plain EXCEPT !.op = 9, !.d = b] : b \in {0, 1}}
       \cup {[plain EXCEPT !.s = next, !.t = t] : t \in {"RESUMED", "TYPING_START"}}
       \cup {[plain EXCEPT !.s = next, !.t = "READY", !.d = 1]}
       \cup {[plain EXCEPT !.s = next, !.t = "RATE_LIMITED", !.d = o] : o \in {3, 8}}

\* DiscordWebSocket.handleMessage with handleDispatch, handleReady, handleResumed,
\* handleRateLimited (RateLimiter.trackRateLimit), sendHeartbeat, reconnectWebSocket,
\* handleInvalidSession, handleHello (startHeartbeat, then RESUME or IDENTIFY) and
\* handleHeartbeatAck
gatewayHandleMessage(g, p) ==
  LET q == IF p.s # 0 THEN [g EXCEPT !.sequence = p.s] ELSE g
  IN CASE p.op = 0 /\ p.t = "READY" ->
            [q EXCEPT !.sessionId = p.d, !.resumeGatewayUrl = TRUE, !.connected = TRUE,
                      !.store = [sessionId |-> p.d, sequence |-> q.sequence, resume |-> TRUE],
                      !.readyPromise = FALSE]
       [] p.op = 0 /\ p.t = "RESUMED" ->
            [q EXCEPT !.connected = TRUE,
                      !.store = IF @ = NoSession THEN @ ELSE [@ EXCEPT !.sequence = q.sequence],
                      !.readyPromise = FALSE]
       [] p.op = 0 /\ p.t = "RATE_LIMITED" -> [q EXCEPT !.limited[p.d] = MaxRetry]
       [] p.op = 1 -> gatewaySend(q, 1)
       [] p.op = 7 -> closeSocket(q, 4000, "reconnect")
       [] p.op = 9 ->
            IF p.d = 1 THEN [stopHeartbeat(q) EXCEPT !.delayed = "resume"]
            ELSE [stopHeartbeat(q) EXCEPT !.sessionId = 0, !.resumeGatewayUrl = FALSE,
                                          !.sequence = 0, !.store = NoSession,
                                          !.delayed = "identify"]
       [] p.op = 10 ->
            LET h == startHeartbeat(q)
                resume == h.sequence > 0 /\ h.sessionId # 0
            IN [gatewaySend(h, IF resume THEN 6 ELSE 2) EXCEPT
                  !.handshake = [n |-> 1 - @.n, op |-> IF resume THEN 6 ELSE 2,
                                 sessionId |-> IF resume THEN h.sessionId ELSE 0,
                                 seq |-> IF resume THEN h.sequence ELSE 0]]
       [] p.op = 11 -> [q EXCEPT !.heartbeatAckReceived = TRUE, !.heartbeatAckTimeout = FALSE,
                                 !.ackTimers = IF q.heartbeatAckTimeout THEN @ - 1 ELSE @]
       [] OTHER -> q

\* the owner calls connect(); a call that finds readyPromise set returns it
UserConnect(cap) ==
  /\ ~gw.readyPromise
  /\ gw.created < cap
  /\ GwStep(gatewayConnect(gw))

\* the open event of socket s
SocketOpens(s) ==
  /\ gw.sock[s].st = "connecting"
  /\ GwStep([gw EXCEPT !.sock[s].st = "open", !.connected = FALSE, !.reconnectAttempts = 0])

\* socket s fails to open: its close event carries 1006
SocketFails(s) ==
  /\ gw.sock[s].st = "connecting"
  /\ GwStep(handleClose(gw, s, 1006))

\* the message event of socket s
ServerSends(s, p) ==
  /\ gw.sock[s].st = "open"
  /\ GwStep(gatewayHandleMessage([gw EXCEPT !.sock[s].hello = @ \/ p.op = 10], p))

\* the gateway closes socket s with a code
ServerCloses(s, code) ==
  /\ gw.sock[s].st = "open"
  /\ GwStep(handleClose(gw, s, code))

\* the close event of a socket the client closed
CloseEvent(s) ==
  /\ gw.sock[s].st = "closing"
  /\ GwStep(handleClose(gw, s, gw.sock[s].code))

\* the setInterval callback of startHeartbeat; the ack timeout of the previous beat is due
\* no later than the next beat
HeartbeatTick ==
  /\ gw.intervals > 0
  /\ ~gw.heartbeatAckTimeout
  /\ GwStep([gatewaySend(gw, 1) EXCEPT !.heartbeatAckReceived = FALSE,
                                       !.heartbeatAckTimeout = TRUE,
                                       !.ackTimers = @ + 1])

\* the ack timeout of startHeartbeat fires: handleHeartbeatTimeout emits an error and
\* calls close()
AckTimeoutFires ==
  /\ gw.ackTimers > 0
  /\ \E g \in {[gw EXCEPT !.heartbeatAckTimeout = FALSE, !.ackTimers = @ - 1]} :
       GwStep(IF g.heartbeatAckReceived THEN g ELSE gatewayClose(g, "timeout"))

\* the reconnect timer of handleClose fires
GatewayReconnectFires(cap) ==
  /\ gw.timers > 0
  /\ gw.readyPromise \/ gw.created < cap
  /\ GwStep(gatewayConnect([gw EXCEPT !.timers = @ - 1]))

\* the 150 ms timer of handleInvalidSession fires: sendResume or sendIdentify
DelayedSend ==
  /\ gw.delayed # ""
  /\ GwStep([gatewaySend(gw, IF gw.delayed = "resume" THEN 6 ELSE 2) EXCEPT !.delayed = ""])

\* the owner calls close()
UserClose ==
  /\ gw.ws # 0
  /\ GwStep(gatewayClose(gw, "user"))

\* the owner registers its listeners again
UserOn ==
  /\ ~gw.listeners
  /\ gw.created > 0
  /\ GwStep([gw EXCEPT !.listeners = TRUE])

\* sendActivity: PRESENCE_UPDATE is sent at once
sendActivity ==
  /\ gw.ws # 0
  /\ gw.sock[gw.ws].st = "open"
  /\ GwStep(gatewaySend(gw, 3))

\* requestGuildMembers: RateLimiter.waitForAvailability sleeps for the wait time it
\* computes on entry, then the frame is sent
requestGuildMembers ==
  /\ gw.ws # 0
  /\ gw.sock[gw.ws].st = "open"
  /\ gw.sleeper = -1
  /\ GwStep(IF gw.limited[8] > 0 THEN [gw EXCEPT !.sleeper = gw.limited[8]]
            ELSE gatewaySend(gw, 8))

\* one unit of time passes for the rate limiter's windows and the sleeping call
TimePasses ==
  /\ gw.sleeper # 0
  /\ gw.sleeper > 0 \/ \E o \in DOMAIN gw.limited : gw.limited[o] > 0
  /\ GwStep([gw EXCEPT !.limited = [o \in DOMAIN @ |-> IF @[o] > 0 THEN @[o] - 1 ELSE 0],
                       !.sleeper = IF @ > 0 THEN @ - 1 ELSE @])

\* the sleep of waitForAvailability is over
SleeperWakes ==
  /\ gw.sleeper = 0
  /\ GwStep([gatewaySend(gw, 8) EXCEPT !.sleeper = -1])

\* Connection life cycle: sockets, handshake, heartbeats, session store and reconnects
\* (the gateway sends HELLO on a socket before anything else)
NextGateway ==
  \/ UserConnect(MaxDials)
  \/ \E s \in 1..NumSocks : SocketOpens(s)
  \/ \E s \in 1..NumSocks : SocketFails(s)
  \/ \E s \in 1..NumSocks :
       \E p \in {m \in Payloads(gw) : m.t # "RATE_LIMITED" /\ (m.op = 10 \/ gw.sock[s].hello)} :
         ServerSends(s, p)
  \/ \E s \in 1..NumSocks, code \in {1000, 4000} : ServerCloses(s, code)
  \/ \E s \in 1..NumSocks : CloseEvent(s)
  \/ HeartbeatTick
  \/ AckTimeoutFires
  \/ GatewayReconnectFires(MaxDials)
  \/ DelayedSend
  \/ UserClose
  \/ UserOn

SpecGateway == Init /\ [][NextGateway]_vars

\* Rate limits: one socket, the handshake, RATE_LIMITED dispatches and the owner's sends
NextRate ==
  \/ UserConnect(1)
  \/ \E s \in 1..NumSocks : SocketOpens(s)
  \/ \E s \in 1..NumSocks : \E p \in {m \in Payloads(gw) : m.op \in {0, 10, 11}} : ServerSends(s, p)
  \/ HeartbeatTick
  \/ sendActivity
  \/ requestGuildMembers
  \/ TimePasses
  \/ SleeperWakes

SpecRate == Init /\ [][NextRate]_vars

\* Reconnecting: the owner dials again after each READY, and the gateway closes the
\* sockets with 4000 one after the other
NextBackoff ==
  \/ UserConnect(NumSocks)
  \/ \E s \in 1..NumSocks : SocketOpens(s)
  \/ \E s \in 1..NumSocks : ServerSends(s, [op |-> 0, t |-> "READY", s |-> 1, d |-> 1])
  \/ \E s \in 1..NumSocks, code \in {1000, 4000} : ServerCloses(s, code)
  \/ GatewayReconnectFires(NumSocks)

SpecBackoff == Init /\ [][NextBackoff]_vars

\* ------------------------------------------------------------- observations
\* positions in c's log of the event frames broadcast for request id
EventsFor(c, id) ==
  {i \in 1..Len(sent[c]) :
     sent[c][i].frame.body.type = "event" /\ sent[c][i].frame.body.cause = id}

\* positions in c's log of the response frames carrying id
ResponsesFor(c, id) ==
  {i \in 1..Len(sent[c]) :
     sent[c][i].frame.body.type = "" /\ sent[c][i].frame.body.id = id}

Answered(id) == req[id].st = "done" /\ ResponsesFor(req[id].conn, id) # {}

\* the response the originator of request id was sent
Answer(id) ==
  LET c == req[id].conn
  IN sent[c][CHOOSE i \in ResponsesFor(c, id) : TRUE].frame.body

AnsweredWith(id, tag, value) ==
  /\ Answered(id)
  /\ Answer(id).hasResult
  /\ Answer(id).result[1] = tag
  /\ Answer(id).result[2] = value

\* the mutation of request id took effect: set and clear answered with a result, delete
\* answered success = true
MutationSucceeded(id) ==
  /\ Answered(id)
  /\ \/ req[id].action \in {"set", "clear"} /\ Answer(id).hasResult
     \/ req[id].action = "delete" /\ AnsweredWith(id, "success", TRUE)

ChannelsOf(c) == {ch \in DOMAIN clientsByChannel : c \in clientsByChannel[ch]}

\* what get/has/keys/size return through the tenant adapter over `prefix`
TenantView(prefix) ==
  [get |-> [x \in Collections \X Keys |-> adapterGet(prefix, x[1], x[2])],
   has |-> [x \in Collections \X Keys |-> adapterHas(prefix, x[1], x[2])],
   keys |-> [col \in Collections |->
               adapterKeys(prefix, StoreKeys(redis, scanPattern(prefix, col)))],
   size |-> [col \in Collections \cup {NoString} |-> adapterSize(prefix, col)]]

TenantKeyPrefix(conn) == USER_DATA_KEY_PREFIX \o formatUserId(cl[conn].token) \o <<":">>

C2_Prefixed ==
  /\ lastOp.owner # NoString =>
       \A k \in lastOp.touched : StartsWith(k, TenantKeyPrefix(lastOp.conn))
  /\ \A i \in 1..Len(redisQ) :
       redisQ[i].owner # NoString /\ redisQ[i].k.kind \in StorageActions =>
         /\ redisQ[i].owner = formatUserDataPrefix(formatUserId(cl[redisQ[i].k.conn].token))
         /\ \A k \in RedisTouched(redisQ[i]) : StartsWith(k, TenantKeyPrefix(redisQ[i].k.conn))

\* a step that changes the store is a command of the adapter of T, or leaves T's view alone
C2_Isolated ==
  \/ redis' = redis
  \/ \A t \in Tokens :
       LET prefix == formatUserDataPrefix(formatUserId(t))
       IN \/ redisQ # <<>> /\ Head(redisQ).owner = prefix
          \/ TenantView(prefix)' = TenantView(prefix)

\* C2: every backing-store key a tenant adapter reads, writes or deletes begins with
\* user_data:{tenant-id}: of the token of the connection it serves; and a step that is not
\* a command of tenant T's adapter leaves what get/has/keys/size return for T unchanged.
C2_TenantIsolation == []C2_Prefixed /\ [][C2_Isolated]_vars

\* tenant user_12 holds a key, and the last command, a clear or keys of tenant user_1
\* which holds none, found nothing
C2_Witness ==
  /\ lastOp.owner = formatUserDataPrefix(formatUserId("t1"))
  /\ lastOp.touched = {}
  /\ \E x \in Collections \X Keys :
       /\ adapterHas(formatUserDataPrefix(formatUserId("t2")), x[1], x[2])
       /\ ~adapterHas(formatUserDataPrefix(formatUserId("t1")), x[1], x[2])
  /\ \E id \in ReqIds : req[id].action \in {"clear", "keys"} /\ Answered(id)
                          /\ cl[req[id].conn].token = "t1"

\* C3: once the encryption frame was sent on a connection, every later frame the server
\* sends on it is encrypted, and every request frame the adapter puts on the wire is
\* encrypted.
C3_EncryptedAfterHandshake ==
  \A c \in Conns :
    /\ \A i, j \in 1..Len(sent[c]) :
         sent[c][i].frame.body.type = "encryption" /\ i < j /\ sent[c][j].frame.json
           => sent[c][j].frame.enc
    /\ \A f \in RequestFrames(c, Requests) : f.enc

\* the frames the server sends for an accepted hello
HelloFrameOf(token) ==
  PlainFrame([EmptyBody EXCEPT !.type = "hello", !.channelId = deriveChannelId(token)])

IsEncryptionFrameFor(f, token) ==
  /\ ~f.enc
  /\ f.body.type = "encryption"
  /\ f.body.sealed.tok = token

\* C4: on a connection whose peer is an adapter and sent nothing but the adapter's frames:
\* with a token validateToken accepts, the server's first two frames are the hello frame
\* and the encryption frame, in that order, sent unless validateToken threw, and the
\* adapter that received them is authenticated; with a token validateToken rejects, the
\* server sends the 'Invalid token' error frame and nothing else, the connection is closing
\* or closed from then on, and the adapter is never authenticated.
C4_HandshakeOutcome ==
  \A c \in Conns :
    ad[c].peer = "adapter" /\ ad[c].stray = 0 =>
      LET token == ad[c].token
          log == sent[c]
          pending == \E task \in helloTasks : task.conn = c
          threw == [conn |-> c, kind |-> "validateToken threw"] \in failures
      IN IF validateToken(token)
         THEN /\ ad[c].helloSent /\ ~pending /\ ~threw => Len(log) >= 2
              /\ log # <<>> =>
                   /\ Len(log) >= 2
                   /\ log[1].frame = HelloFrameOf(token)
                   /\ IsEncryptionFrameFor(log[2].frame, token)
              /\ ad[c].connected /\ ad[c].pos >= 2 /\ log[2].delivered => ad[c].authenticated
         ELSE /\ ad[c].helloSent /\ ~pending /\ ~threw => log # <<>>
              /\ log # <<>> =>
                   /\ Len(log) = 1
                   /\ log[1].frame = sendEvent(ErrorEvent("Invalid token"))
                   /\ ws[c] \in {"closing", "closed"}
              /\ ~ad[c].authenticated

\* an adapter's hello was rejected: it received the error frame and its connection closed
C4_Witness ==
  \E c \in Conns :
    /\ ad[c].peer = "adapter"
    /\ ad[c].stray = 0
    /\ ~validateToken(ad[c].token)
    /\ Len(sent[c]) = 1
    /\ ad[c].pos = 1
    /\ ~ad[c].connected

\* C5: a request the dispatcher took is either with its handler, waiting for a reply of
\* the backing store and not answered yet, or done and answered with exactly one response
\* frame carrying its id, sent on its connection and delivered if the connection was
\* open; a response frame carries exactly one of result and error.
C5_ExactlyOneResponse ==
  /\ \A id \in ReqIds :
       LET n == Cardinality(ResponsesFor(req[id].conn, id))
       IN /\ id <= ctr.id <=> req[id].st # "unsent"
          /\ \A c \in Conns : c # req[id].conn => ResponsesFor(c, id) = {}
          /\ req[id].st = "unsent" => \A c \in Conns : ResponsesFor(c, id) = {}
          /\ req[id].st = "handling" =>
               /\ n = 0
               /\ Cardinality({i \in 1..Len(redisQ) : redisQ[i].k.id = id}) = 1
          /\ req[id].st = "done" => n = 1
  /\ \A c \in Conns : \A i \in 1..Len(sent[c]) :
       LET r == sent[c][i].frame.body
       IN r.type = "" =>
            /\ r.hasResult # r.hasError
            /\ req[r.id].conn = c
            /\ sent[c][i].frame.enc

\* on a connection still open, one request was answered with an error and another with a
\* result
C5_Witness ==
  \E id1, id2 \in ReqIds :
    /\ Answered(id1) /\ Answer(id1).hasError
    /\ Answered(id2) /\ Answer(id2).hasResult
    /\ req[id1].conn = req[id2].conn
    /\ ws[req[id1].conn] = "open"
    /\ sent[req[id1].conn][Len(sent[req[id1].conn])].delivered

\* C6: a request answered with an error, or a delete answered success = false, is
\* answered once and has no event frame on any connection; a set the adapter's schema
\* refuses puts no frame on the wire and no command on the store, and no value outside
\* the schema is stored under a tenant prefix or carried by an event.
C6_NoEventWithoutEffect ==
  /\ \A id \in ReqIds :
       /\ req[id].st = "done" => Cardinality(ResponsesFor(req[id].conn, id)) = 1
       /\ Answered(id) /\ (Answer(id).hasError \/ AnsweredWith(id, "success", FALSE)) =>
            \A c \in Conns : EventsFor(c, id) = {}
       /\ req[id].st = "rejected" =>
            /\ \A c \in Conns : EventsFor(c, id) = {} /\ ResponsesFor(c, id) = {}
            /\ \A i \in 1..Len(redisQ) : redisQ[i].k.id # id
  /\ \A k \in DOMAIN redis :
       StartsWith(k, USER_DATA_KEY_PREFIX) => deserialize(redis[k]) \in Values
  /\ \A c \in Conns : \A i \in 1..Len(sent[c]) :
       sent[c][i].frame.body.event = "set" => sent[c][i].frame.body.value \in Values

\* a set was answered with an error while another connection was a member of the
\* originator's channel, and a set with a value outside the schema was refused
C6_Witness ==
  \E id1, id2 \in ReqIds :
    /\ req[id1].action = "set"
    /\ Answered(id1) /\ Answer(id1).hasError
    /\ Members(cl[req[id1].conn].channelId) \ {req[id1].conn} # {}
    /\ req[id2].st = "rejected"

\* C7: each connection is a member of at most one channel, and of none while its Client
\* has no channelId.
C7_AtMostOneChannel ==
  \A c \in Conns :
    /\ Cardinality(ChannelsOf(c)) <= 1
    /\ cl[c].channelId = NoString => ChannelsOf(c) = {}

\* C8: no channel of the map is empty, every member of a channel is a connection the
\* server holds a Client for, and a connection whose close handler has run is a member
\* of no channel.
C8_MembersAreLive ==
  /\ \A ch \in DOMAIN clientsByChannel :
       clientsByChannel[ch] # {} /\ clientsByChannel[ch] \subseteq clients
  /\ \A c \in Conns : ws[c] = "closed" => ChannelsOf(c) = {}

\* C9: a Client marked authenticated has its storage adapter attached and is a member of
\* its channel, and no response says 'Client not authenticated or storage not initialized'.
C9_AuthenticatedIsReady ==
  /\ \A c \in clients :
       cl[c].isAuthenticated =>
         cl[c].storage # NoStorage /\ c \in Members(cl[c].channelId)
  /\ \A c \in Conns : \A i \in 1..Len(sent[c]) :
       sent[c][i].frame.body.error # NotInitialized

\* C10: a connection on which the handshake failed (a non-hello or unparsable frame, a
\* hello failing the schema, a rejected token, a throw of validateToken or of
\* ensureUserBucket, a session key the adapter cannot unseal) is closing or closed.
C10_FailureCloses ==
  \A x \in failures : ws[x.conn] \in {"closing", "closed"}

\* ------------------------------------------------------------- named storage
\* WebSocketAdapter.has: a get whose value is not null
clientHas(prefix, collection, key) == adapterGet(prefix, collection, key) # NoValue

\* what keys(collection) returns through the tenant adapter over `prefix`
keysOf(prefix, collection) ==
  adapterKeys(prefix, StoreKeys(redis, scanPattern(prefix, collection)))

TenantPrefixes == {formatUserDataPrefix(u) : u \in SeedTenants}

\* the reply now delivered completes request id of the given action with a result
Completes(id, action) ==
  /\ redisQ # <<>>
  /\ Head(redisQ).k.id = id
  /\ req[id].action = action
  /\ req[id].st = "handling"
  /\ (req[id].st = "done" /\ Answered(id) /\ Answer(id).hasResult)'

\* C11: round trip. While the last mutation applied to (t, c, k) is a successful set of
\* v (no later set, delete or clear of that name), get(t, c, k) returns v.
C11_RoundTrip ==
  \A x \in DOMAIN written :
    written[x].kind = "set" => adapterGet(x[1], x[2], x[3]) = written[x].value

C12_AfterDelete ==
  \A x \in DOMAIN written :
    written[x].kind = "delete" /\ written[x].success =>
      /\ ~clientHas(x[1], x[2], x[3])
      /\ x[3] \notin keysOf(x[1], x[2])

C12_DeleteReports ==
  \A id \in ReqIds : \A stored \in BOOLEAN :
    /\ Completes(id, "delete")
    /\ stored = adapterHas(Head(redisQ).owner, Head(redisQ).k.collection, Head(redisQ).k.key)
    => AnsweredWith(id, "success", stored)'

\* C12: while the last mutation applied to (t, c, k) is a delete that returned true (no
\* later set of that name), has(t, c, k) is false and keys(t, c) does not contain k; and
\* a delete answers success = true exactly when a value was stored under (t, c, k).
C12_DeleteRemoves == []C12_AfterDelete /\ [][C12_DeleteReports]_vars

\* C13: when clear(t, c) completes and no set was made on the connection, size(t, c) is 0
\* and what get returns for the names of t's other collections is unchanged; when
\* clear(t) completes, size(t) is 0 and the size of every other tenant is unchanged.
C13_ClearEmpties ==
  [][\A id \in ReqIds : \A p \in TenantPrefixes : \A col \in NamedCollections \cup {NoString} :
       /\ Completes(id, "clear")
       /\ Head(redisQ).owner = p
       /\ Head(redisQ).k.collection = col
       /\ \A j \in ReqIds : req[j].action # "set"
       => /\ adapterSize(p, col)' = 0
          /\ col # NoString =>
               \A c2 \in NamedCollections \ {col} : \A k \in NamedKeys :
                 adapterGet(p, c2, k)' = adapterGet(p, c2, k)
          /\ col = NoString =>
               \A q \in TenantPrefixes \ {p} :
                 adapterSize(q, NoString)' = adapterSize(q, NoString)]_vars

\* nothing of tenant userId is left in the backing store or in the manager's caches
TenantGone(userId) ==
  /\ StoreKeys(redis, scanPattern(formatUserDataPrefix(userId), NoString)) = {}
  /\ ~Stored(redis, formatUserMetadataKey(userId))
  /\ userId \notin allUsers
  /\ userId \notin metadataCache
  /\ userId \notin DOMAIN buckets

\* C15: when deleteUserBucket(tenantId) has returned true (admin_delete_user answered
\* success = true), the store holds no user_data:{tenantId}:* key and no
\* user_metadata:{tenantId} key, tenantId is not in all_users, and neither cache holds it,
\* whether or not an adapter for the tenant existed in this server process.
C15_DeleteUserBucketRemovesAll ==
  [][\A id \in ReqIds : \A u \in UserIds :
       /\ Completes(id, "admin_delete_user")
       /\ Head(redisQ).k.userId = u
       /\ AnsweredWith(id, "success", TRUE)'
       => TenantGone(u)']_vars

\* ------------------------------------------------------------- set: response, event, store
\* this step answers the set request id
SetAnswered(id) ==
  /\ req[id].st # "done"
  /\ (req[id].st = "done" /\ req[id].action = "set" /\ Answered(id))'

C14_EventAfterResponse ==
  \A id \in ReqIds : \A c \in Conns :
    EventsFor(c, id) # {} =>
      /\ Answered(id) /\ Answer(id).hasResult
      /\ c # req[id].conn

C14_Persisted ==
  \A id \in ReqIds :
    SetAnswered(id) =>
      IF Answer(id).hasResult'
      THEN LET e == Head(redisQ)
               redisKey == formatKey(formatUserDataPrefix(formatUserId(cl[e.k.conn].token)),
                                     e.k.collection, e.k.key)
           IN /\ e.k.id = id
              /\ Stored(redis', redisKey)
              /\ deserialize(redis'[redisKey]) = e.k.value
      ELSE redis' = redis

\* C14: when a set is answered with a result, its value is stored under the key of the
\* originator's tenant; an event frame of a set exists only once the originator has been
\* sent the result; and a set answered with an error left the store unchanged.
C14_SetIsAtomic == []C14_EventAfterResponse /\ [][C14_Persisted]_vars

\* one set was answered with a result and its event reached another connection, another
\* set was answered with an error
C14_Witness ==
  \E id1, id2 \in ReqIds :
    /\ req[id1].action = "set" /\ Answered(id1) /\ Answer(id1).hasResult
    /\ \E c \in Conns : EventsFor(c, id1) # {}
    /\ req[id2].action = "set" /\ Answered(id2) /\ Answer(id2).hasError

\* ------------------------------------------------------------- ensureUserBucket

\* C16: the adapters ensureUserBucket returned for one token are one instance, the one the
\* manager caches; createUserMetadata runs once per tenant (never for a tenant whose
\* metadata is cached, never twice at a time, one adapter instance per tenant); and a
\* tenant whose metadata was created is in all_users.
C16_EnsureUserBucketOnce ==
  /\ \A c, d \in Conns :
       cl[c].storage # NoStorage /\ cl[d].storage # NoStorage /\ cl[c].token = cl[d].token
         => cl[c].storage = cl[d].storage
  /\ \A c \in Conns :
       cl[c].storage # NoStorage /\ formatUserId(cl[c].token) \in DOMAIN buckets
         => cl[c].storage = buckets[formatUserId(cl[c].token)]
  /\ \A i, j \in {n \in 1..Len(redisQ) : redisQ[n].k.pc \in {"create_set", "create_sadd"}} :
       /\ redisQ[i].k.userId \notin metadataCache
       /\ redisQ[i].k.userId = redisQ[j].k.userId => i = j
  /\ ctr.inst = Cardinality(DOMAIN buckets)
  /\ metadataCache \subseteq allUsers

\* ------------------------------------------------------------- client adapter: life cycle
\* C17: the reconnect attempts the adapter has made since its construction or its last
\* completed (authenticated) handshake never exceed maxReconnectAttempts, and at most one
\* reconnect timer is armed.
C17_ReconnectBounded ==
  /\ adapter.attempts <= MaxReconnectAttempts
  /\ adapter.armed <= 1

\* C18: once close() has been called the pending-request table is empty and no call made
\* before it is still waiting for its outcome: each was rejected at close time.
C18_CloseRejectsPending ==
  adapter.closeCalled =>
    /\ adapter.pendingRequests = {}
    /\ \A id \in ReqIds : adapter.calls[id].st # "pending"

C20_FailurePropagates ==
  \A id \in ReqIds :
    adapter.calls[id].failed => adapter.calls[id].st = "rejected"

\* ------------------------------------------------------------- invalid frames
\* C29: a frame on an authenticated connection that does not decrypt or matches no schema
\* changes neither the backing store nor the commands in flight, is broadcast to nobody,
\* is answered on its own connection with exactly one error event that carries no id, and
\* leaves the connection open with its Client unchanged.
C29_InvalidFrameRejected ==
  [][\A c \in Conns :
       cl[c].isAuthenticated /\ ad'[c].stray = ad[c].stray + 1 =>
         /\ redis' = redis /\ redisQ' = redisQ /\ allUsers' = allUsers
         /\ buckets' = buckets /\ metadataCache' = metadataCache
         /\ dispatched' = dispatched /\ clientsByChannel' = clientsByChannel
         /\ \A d \in Conns \ {c} : sent'[d] = sent[d]
         /\ Len(sent'[c]) = Len(sent[c]) + 1
         /\ SubSeq(sent'[c], 1, Len(sent[c])) = sent[c]
         /\ sent'[c][Len(sent'[c])].frame = sendEvent(ErrorEvent("Invalid message"))
         /\ sent'[c][Len(sent'[c])].frame.body.id = 0
         /\ ws'[c] = "open" /\ c \in clients' /\ cl'[c] = cl[c]]_vars

\* an authenticated connection was sent the error event of an invalid frame and, after
\* it, the result of a valid request
C29_Witness ==
  \E c \in Conns : \E i, j \in 1..Len(sent[c]) :
    /\ i < j
    /\ sent[c][i].frame = sendEvent(ErrorEvent("Invalid message"))
    /\ sent[c][j].frame.body.hasResult
    /\ sent[c][j].frame.body.id # 0
    /\ cl[c].isAuthenticated /\ ws[c] = "open"

\* ------------------------------------------------------------- clear
\* C30: the result a clear is answered with carries the number of keys the clear removed
\* from the backing store.
C30_ClearCount ==
  [][\A id \in ReqIds :
       req[id].action = "clear" /\ ~Answered(id) /\ Answered(id)' /\ (Answer(id).hasResult)' =>
         (Answer(id).result)' =
           <<"count", Cardinality(DOMAIN redis) - Cardinality(DOMAIN redis')>>]_vars

\* ------------------------------------------------------------- restart
\* C21: a get answered with a result returns the value of the last set applied under the
\* same tenant, collection and key (null when there was none), whether the server was
\* stopped and started again between the two or not.
C21_SurvivesRestart ==
  [][\A id \in ReqIds :
       req[id].action = "get" /\ ~Answered(id) /\ Answered(id)' /\ (Answer(id).hasResult)' =>
         \E e \in {Head(redisQ)} :
           \E name \in {<<formatUserDataPrefix(formatUserId(ad[e.k.conn].token)),
                          e.k.collection, e.k.key>>} :
             /\ e.k.id = id
             /\ (Answer(id).result)' =
                  <<"value", IF name \in DOMAIN written THEN written[name].value
                                                        ELSE NoValue>>]_vars

\* a set was answered on connection 1, the server was restarted (nothing else closes a
\* connection here), and connection 2, opened after it with the same token, was answered
\* the value
C21_Witness ==
  \E id1, id2 \in ReqIds :
    /\ req[id1].action = "set" /\ req[id1].conn = 1 /\ Answered(id1) /\ Answer(id1).hasResult
    /\ req[id2].action = "get" /\ req[id2].conn = 2 /\ Answered(id2)
    /\ Answer(id2).hasResult /\ Answer(id2).result[2] # NoValue
    /\ ws[1] = "closed" /\ ws[2] = "open"
    /\ ad[1].token = ad[2].token

\* ------------------------------------------------------------- gateway client
\* C22: when the close event arrives of a socket that the heartbeat ack timeout closed, a
\* reconnect timer is armed.
C22_TimeoutReconnects ==
  [][\A s \in 1..NumSocks :
       gw.sock[s].why = "timeout" /\ gw.sock[s].st = "closing" /\ gw'.sock[s].st = "closed"
         => gw'.timers = gw.timers + 1]_vars

\* C23: once a socket that the heartbeat ack timeout closed is closed, the listeners that
\* were registered at the timeout have observed exactly one `disconnected` event for it.
C23_OneDisconnected ==
  \A s \in 1..NumSocks :
    gw.sock[s].why = "timeout" /\ gw.sock[s].listening /\ gw.sock[s].st = "closed"
      => gw.sock[s].heard = 1

\* C24: every reconnect timer that fires makes a new socket, whatever the state of the
\* connection when the socket closed; and the close event of a socket with a code other
\* than 4000 arms no reconnect timer.
C24_ReconnectOn4000 ==
  [][/\ gw'.timers = gw.timers - 1 => gw'.created = gw.created + 1
     /\ \A s \in 1..NumSocks :
          gw.sock[s].st # "closed" /\ gw'.sock[s].st = "closed" /\ gw'.sock[s].code # 4000
            => gw'.timers = gw.timers]_vars

\* C25: the reconnect timer armed for the k-th consecutive attempt (k = 1..5, no socket
\* opened in between) has a delay of 400, 800, 1600, 3200, 5000 ms, and no timer is armed
\* once five attempts have been used.
C25_Backoff ==
  [][/\ gw'.timers = gw.timers + 1 =>
          \E k \in 1..5 : /\ gw.reconnectAttempts = k - 1
                          /\ gw'.reconnectAttempts = k
                          /\ gw'.lastDelay = <<400, 800, 1600, 3200, 5000>>[k]
     /\ gw.reconnectAttempts = 5 => gw'.timers <= gw.timers]_vars

\* five consecutive reconnects were scheduled, the last with a delay of 5000 ms, and a
\* further close with code 4000 scheduled none
C25_Witness ==
  /\ gw.reconnectAttempts = 5
  /\ gw.lastDelay = 5000
  /\ \E s \in 1..NumSocks : gw.sock[s].code = 4000 /\ gw.sock[s].scheduled = "no"
  /\ Cardinality({s \in 1..NumSocks : gw.sock[s].scheduled = "yes"}) = 5

\* C26: a connect() that finds a session in the store dials the resume URL, and the
\* handshake frame sent after the next HELLO is RESUME with the stored session id and
\* sequence; IDENTIFY is sent only when the store holds no session.
C26_ResumeFromStore ==
  [][/\ gw'.created = gw.created + 1 /\ gw.store # NoSession
          => gw'.sock[gw'.created].url = "resume"
     /\ gw'.handshake.n # gw.handshake.n /\ gw.isResuming
          => /\ gw'.handshake.op = 6
             /\ gw'.handshake.sessionId = gw.store.sessionId
             /\ gw'.handshake.seq = gw.store.sequence
     /\ gw'.handshake.n # gw.handshake.n /\ gw'.handshake.op = 2
          => gw.store = NoSession]_vars

\* C27: while a session is established, the sequence in the session store equals the
\* sequence in memory.
C27_StoredSequence ==
  gw.sessionId # 0 /\ gw.store # NoSession => gw.store.sequence = gw.sequence

\* C28: no frame is sent with an opcode whose retry window is open.
C28_RateLimitHonoured == gw.early = {}

\* C31: at most one heartbeat interval timer and one ack timeout are live; handling HELLO
\* leaves exactly the interval timer that this.heartbeatTimer refers to and no ack timeout;
\* a close event, close() and INVALID_SESSION leave no heartbeat timer live.
C31_OneHeartbeatTimer ==
  [][/\ gw'.intervals <= 1 /\ gw'.ackTimers <= 1
     /\ gw'.handshake.n # gw.handshake.n
          => gw'.intervals = 1 /\ gw'.heartbeatTimer /\ gw'.ackTimers = 0
     /\ ( \/ \E s \in 1..NumSocks : gw.sock[s].st # "closed" /\ gw'.sock[s].st = "closed"
          \/ gw.ws # 0 /\ gw'.ws = 0
          \/ gw'.delayed # gw.delayed /\ gw'.delayed # "" )
          => gw'.intervals = 0 /\ gw'.ackTimers = 0]_vars

\* the only socket has delivered HELLO twice and a heartbeat with its ack timeout is
\* running
C31_Witness ==
  /\ gw.created = 1 /\ gw.sock[1].st = "open" /\ gw.sock[1].hello
  /\ gw.handshake.n = 0 /\ gw.handshake.op # 0
  /\ gw.intervals = 1 /\ gw.ackTimers = 1

\* C37: once close() has been called and until the owner calls connect() again, a
\* reconnect timer or an invalid-session retry timer that fires makes no socket and finds
\* no socket to send on.
C37_ClosedStaysClosed ==
  [][(/\ gw.ws = 0 /\ gw.created > 0
      /\ gw'.timers < gw.timers \/ (gw.delayed # "" /\ gw'.delayed = ""))
       => gw'.created = gw.created /\ gw'.ws = 0]_vars

\* C38: at most one socket of the object is connecting or open.
C38_OneSocket ==
  Cardinality({s \in 1..NumSocks : gw.sock[s].st \in {"connecting", "open"}}) <= 1

\* C39: whenever the connection is ready on an open socket that delivered HELLO, the
\* heartbeat interval timer is running.
C39_ReadyBeats ==
  gw.connected /\ gw.ws # 0 /\ gw.sock[gw.ws].st = "open" /\ gw.sock[gw.ws].hello
    => gw.heartbeatTimer /\ gw.intervals = 1

\* ------------------------------------------------------------- handshake and tenants
\* C32: once an adapter has completed the handshake of its connection, its session key
\* and IV equal the key and the IV the server holds for the connection.
C32_SameCipherState ==
  \A c \in Conns :
    ad[c].peer = "adapter" /\ ad[c].authenticated /\ cl[c].isAuthenticated
      => ad[c].encKey = cl[c].encryptionKey /\ ad[c].encIv = cl[c].iv

\* C33: for every authenticated connection, the channel id, the channels it is a member
\* of and the tenant prefix of its storage adapter are those of its recorded token.
C33_OneTokenPerConnection ==
  \A c \in Conns :
    cl[c].isAuthenticated =>
      /\ cl[c].channelId = deriveChannelId(cl[c].token)
      /\ \A ch \in DOMAIN clientsByChannel :
           c \in clientsByChannel[ch] => ch = deriveChannelId(cl[c].token)
      /\ cl[c].storage # NoStorage =>
           cl[c].storage.prefix = formatUserDataPrefix(formatUserId(cl[c].token))

\* C34: when no Redis command is in flight, every user_data:{tenant}:... key of the
\* store belongs to a tenant that is in all_users and has a metadata record.
C34_DataHasTenant ==
  redisQ = <<>> =>
    \A x \in DOMAIN redis : \A u \in UserIds :
      StartsWith(x, formatUserDataPrefix(u) \o <<":">>)
        => u \in allUsers /\ formatUserMetadataKey(u) \in DOMAIN redis

\* C35: when no handshake and no Redis command is in progress, all_users, the tenants
\* that have a user_metadata: key and the keys of the metadata cache are the same set.
C35_TenantIndexAgrees ==
  redisQ = <<>> /\ helloTasks = {} =>
    /\ allUsers = metadataCache
    /\ allUsers = {u \in UserIds : formatUserMetadataKey(u) \in DOMAIN redis}

\* positions in c's log of the frames that tell c of a set: the set events it was sent and
\* the results of its own sets
SetFrames(c) ==
  {i \in 1..Len(sent[c]) :
     LET b == sent[c][i].frame.body
     IN \/ b.type = "event" /\ b.event = "set"
        \/ b.type = "" /\ b.hasResult /\ b.id # 0 /\ req[b.id].action = "set"}

\* the body of the last of them
LastSetFrame(c) ==
  sent[c][CHOOSE i \in SetFrames(c) : \A j \in SetFrames(c) : j <= i].frame.body

\* the request that frame is about
LastWriter(c) ==
  IF LastSetFrame(c).type = "event" THEN LastSetFrame(c).cause ELSE LastSetFrame(c).id

\* C36: once every set is handled, the connections that were told of a set agree on
\* which set was the last, and a connection whose last set frame is an event holds in it
\* the value the store holds for the key.
C36_LastEventIsStored ==
  redisQ = <<>> =>
    \A c \in Conns :
      SetFrames(c) # {} =>
        /\ \A d \in Conns : SetFrames(d) # {} => LastWriter(d) = LastWriter(c)
        /\ LastSetFrame(c).type = "event" =>
             LET redisKey == formatKey(cl[c].storage.prefix, LastSetFrame(c).collection,
                                       LastSetFrame(c).key)
             IN Stored(redis, redisKey)
                  /\ deserialize(redis[redisKey]) = LastSetFrame(c).value

\* two connections of one channel have set the key to different values, each was sent the
\* other's event, and both sets are handled
C36_Witness ==
  /\ redisQ = <<>>
  /\ \E c, d \in Conns :
       /\ c # d
       /\ req[1].conn = c /\ req[2].conn = d
       /\ EventsFor(d, 1) # {} /\ EventsFor(c, 2) # {}
       /\ \E i \in EventsFor(d, 1), j \in EventsFor(c, 2) :
            sent[d][i].frame.body.value # sent[c][j].frame.body.value

\* ------------------------------------------------------------- pending requests
\* C40: a request is unsettled exactly while its timer is armed, and only an unsettled
\* request has an entry; a settled request is never settled again nor sent again;
\* settling removes the entry and the timer; a response read by the adapter whose id has
\* no entry changes nothing of the table; and a request still unsettled when the adapter
\* has seen its connection close stays on that connection and is settled as a rejection.
C40_PendingTable ==
  [][/\ \A id \in ReqIds :
          LET call == adapter.calls[id]
              pending(a) == a.calls[id].st = "pending"
          IN /\ pending(adapter') <=> id \in adapter'.timeouts
             /\ id \in adapter'.pendingRequests => pending(adapter')
             /\ call.st \notin {"", "pending"} => adapter'.calls[id] = call
             /\ pending(adapter) /\ ~pending(adapter')
                  => id \notin adapter'.pendingRequests /\ id \notin adapter'.timeouts
             /\ pending(adapter) => req'[id].conn = req[id].conn
             /\ pending(adapter) /\ ~ad[req[id].conn].connected /\ ~pending(adapter')
                  => adapter'.calls[id].failed
     /\ \A c \in Conns :
          /\ ad'[c].pos = ad[c].pos + 1
          /\ sent[c][ad[c].pos + 1].frame.body.type = ""
          /\ sent[c][ad[c].pos + 1].frame.body.id \notin adapter.pendingRequests
          => adapter' = adapter]_vars

\* a request timed out and its late response was then read and discarded; the other
\* request, never answered, was rejected by its timeout after the connection had dropped
\* and the adapter had dialed again
C40_Witness ==
  \E c \in Conns : \E i, j \in ReqIds :
    /\ i # j /\ req[i].conn = c /\ req[j].conn = c
    /\ adapter.calls[i].failed /\ ResponsesFor(c, i) # {} /\ Answer(i).hasResult
    /\ ad[c].pos = Len(sent[c])
    /\ adapter.calls[j].failed /\ ResponsesFor(c, j) = {}
    /\ ws[c] = "closed" /\ adapter.created >= 2
    /\ adapter.pendingRequests = {}

=============================================================================
